---- MODULE Spec2Model ----
(***************************************************************************)
(* SafeKey: credential vault (ledger + blob store), pending-write queue,   *)
(* master-key manager, secure persistence cache and the blob envelope.     *)
(*                                                                         *)
(* Representation.  A byte is a number in 0..255 and a byte string is a    *)
(* sequence of bytes.  A base64 string is represented by the byte string   *)
(* it decodes to (the code only ever produces canonical base64 with btoa). *)
(* A string of the program is a positive number, the empty string is 0.    *)
(* AES-GCM is symbolic: a ciphertext carries the key and the IV it was     *)
(* made with and decrypts only under exactly those.                        *)
(* Time is counted in clock ticks; the time limits of the program are      *)
(* scaled to a few ticks and keep their order.                             *)
(***************************************************************************)
EXTENDS Integers, Sequences, FiniteSets, TLC

\* ------------------------------------------------------------------ bounds
MaxBlobs == 2        \* blob puts in one run
MaxFieldLen == 2     \* length of a nonce / IV / ciphertext of the envelope law
MaxPending == 2      \* pending writes enqueued in one run
MaxDerivs == 2       \* deriveMasterKey calls in one run
MaxDeferred == 1     \* deferred clears (setTimeout 0) pending at one time
MaxNow == 3          \* clock ticks in one run
MaxBufLen == 4       \* length of a buffer handed to the blob parser
MaxSyncs == 3    \* POST /sync-session requests issued in one run
MaxSubmits == 1  \* form submissions the user makes on one page
MaxUtilNow == 6  \* clock ticks in one run of the rate limiter and of the ping server
MaxIds == 2          \* elements of a payloadRef array found on the ledger

Domains == {1}
Names == {1, 2}
KMs == {1, 2}
Procs == {1, 2}
ByteVals == {0, 7}
BufVals == {0, 1, 7}   \* bytes of a buffer fetched from the blob store
SaveKMs == {1}     \* the master key of the signed-in owner
Passwords == {1}
QueueNames == {1}
Addresses == {1, 2}    \* identities (wallet addresses)
Callers == {1, 2}      \* callers of the master-key manager
Tokens == {1, 2}       \* identity tokens
Kinds == {"session", "credentials"}   \* the two slots of the Secure Cache

None == <<>>
Some(x) == <<x>>

RECURSIVE SeqsUpTo(_, _)
SeqsUpTo(S, n) ==
  IF n = 0 THEN {<<>>}
  ELSE LET prev == SeqsUpTo(S, n - 1)
       IN prev \cup {Append(s, x) : s \in {t \in prev : Len(t) = n - 1}, x \in S}

Range(s) == {s[i] : i \in 1..Len(s)}

\* ---------------------------------------------------------------- envelope
\* [sessionNonceLen (1 byte)] [sessionNonce] [ivLen (1 byte)] [iv] [ciphertext];
\* a Uint8Array element keeps the low 8 bits of what is stored in it.
PackBlob(sn, iv, ct) == <<Len(sn) % 256>> \o sn \o <<Len(iv) % 256>> \o iv \o ct

Malformed == [ok |-> FALSE, sn |-> <<>>, iv |-> <<>>, ct |-> <<>>]

\* blobData.slice(from, to) with 0-based, end-exclusive indices
Slice(b, from, to) == SubSeq(b, from + 1, IF to > Len(b) THEN Len(b) ELSE to)

ParseBlobIvAtStart(b) ==
  IF Len(b) < 3 THEN Malformed
  ELSE LET snLen == b[1] IN
       IF Len(b) < 1 + snLen + 1 THEN Malformed
       ELSE LET ivLength == b[1 + snLen + 1]
                off == 1 + snLen + 1
            IN IF Len(b) < off + ivLength THEN Malformed
               ELSE [ok |-> TRUE,
                     sn |-> Slice(b, 1, 1 + snLen),
                     iv |-> Slice(b, 1, 1 + ivLength),
                     ct |-> Slice(b, off + ivLength, Len(b))]

ParseBlobNoIvCheck(b) ==
  IF Len(b) < 3 THEN Malformed
  ELSE LET snLen == b[1] IN
       IF Len(b) < 1 + snLen + 1 THEN Malformed
       ELSE LET ivLength == b[1 + snLen + 1]
                off == 1 + snLen + 1
            IN [ok |-> TRUE,
                sn |-> Slice(b, 1, 1 + snLen),
                iv |-> Slice(b, off, off + ivLength),
                ct |-> Slice(b, off + ivLength, Len(b))]

ParseBlob(b) ==
  IF Len(b) < 3 THEN Malformed
  ELSE LET snLen == b[1] IN
       IF Len(b) < 1 + snLen + 1 THEN Malformed
       ELSE LET ivLength == b[1 + snLen + 1]
                off == 1 + snLen + 1
            IN IF Len(b) < off + ivLength THEN Malformed
               ELSE [ok |-> TRUE,
                     sn |-> Slice(b, 1, 1 + snLen),
                     iv |-> Slice(b, off, off + ivLength),
                     ct |-> Slice(b, off + ivLength, Len(b))]

\* the 0-based indices at which the parser reads blobData[...]; slice() clamps
\* to the buffer and reads no index outside it
ParseReads(b) ==
  IF Len(b) < 3 THEN {}
  ELSE LET snLen == b[1] IN
       IF Len(b) < 1 + snLen + 1 THEN {0}
       ELSE {0, 1 + snLen}

\* ------------------------------------------------------------------ crypto
\* crypto.ts: HMAC of the domain under KM; HKDF of KM and the session nonce;
\* AES-GCM with a fresh IV.
HashDomain(domain, KM) == <<KM, domain>>

DeriveKS(KM, sessionNonce) == <<KM, sessionNonce>>

KeyByte(KS) == 16 * KS[1] + (IF KS[2] = <<>> THEN 0 ELSE KS[2][1])

Encrypt(pt, KS, iv) == [iv |-> iv, ct |-> <<KeyByte(KS)>> \o iv \o pt]

DecryptFail == [ok |-> FALSE, pt |-> <<>>]

Decrypt(iv, ct, KS) ==
  IF /\ Len(ct) >= 1 + Len(iv)
     /\ Len(iv) >= 1
     /\ ct[1] = KeyByte(KS)
     /\ SubSeq(ct, 2, 1 + Len(iv)) = iv
  THEN [ok |-> TRUE, pt |-> SubSeq(ct, 2 + Len(iv), Len(ct))]
  ELSE DecryptFail

\* JSON.stringify({domain, username, password}) and JSON.parse of it
CredentialJson(c) == <<c.domain, c.username, c.password>>

ParseCredentialJson(pt) ==
  IF Len(pt) = 3
  THEN [ok |-> TRUE, domain |-> pt[1], username |-> pt[2], password |-> pt[3]]
  ELSE [ok |-> FALSE, domain |-> 0, username |-> 0, password |-> 0]

\* ------------------------------------------------------------------- state
VARIABLES
  vault,     \* the owner's UserVault exists
  ledger,    \* fingerprint -> None | Some(VaultEntry)
  blobs,     \* the blob store: blob id i holds blobs[i]
  sv,        \* saveCredential calls in progress, one per caller
  saved,     \* history: fingerprint -> the successful saves since the record was created
  clean,     \* history: fingerprint -> its record was made by non-overlapping saves only
  lastSave,  \* history: the last ledger write, if it was a successful save
  getLog,    \* the last getCredential or deleteCredential call and its result
  queue,     \* the pending-write queue of the API server
  nextId,    \* the next queue id
  cyc,       \* processQueue runs in progress, one per poll tick
  acked,     \* history: queue ids whose complete request removed the entry
  applied,   \* history: queue id -> blob ids appended to the ledger for it
  failedOnce,\* history: queue ids with a save attempt that threw before any succeeded
  polledAcked, \* history: a poll returned an entry acknowledged before
  pollMissed,  \* history: a poll did not return an entry that was never acknowledged
  env,       \* one run of the envelope: pack a blob, then parse it
  mk,        \* SecureMasterKeyManager.state
  derivs,    \* the deriveMasterKey calls made so far, in call order
  waiting,   \* per caller: the derivation whose promise it awaits (0: none)
  ret,       \* the last value the manager handed to its callers
  keyFor,    \* history: address -> keys derived or restored for it
  keyOrigin, \* history: where the cached key came from
  deferred,  \* clears scheduled by recordAccess with setTimeout(.., 0), not yet run
  unzeroed,  \* history: a key buffer was dropped without being zero-filled
  slot,      \* Secure Cache: kind -> None | Some(stored record)
  loadLog,   \* Secure Cache: the last finished load and its result
  attempts,  \* RateLimiter.attempts: key -> None | Some([count, resetTime])
  limLog,    \* the last checkLimit call and its result
  extensionHeartbeats, \* the server's map: extension id -> None | Some(last ping)
  statusLog, \* the last answers of POST /api/extension-ping and GET /api/extension-status
  accepted,  \* history: key -> times of the accepted checkLimit calls since reset(key)
  sync,      \* SecureSessionManager.state, the POST /sync-session requests in flight, the last return
  api,       \* the API server: its session store and its last answer
  page,      \* the content script on one page: form detection, notifications, save prompt
  dash,      \* Dashboard: the credentials state and the last loadCredentials call
  now        \* Date.now(), in clock ticks

vaultVars == <<vault, ledger, blobs, sv, saved, clean, lastSave, getLog>>
queueVars == <<queue, nextId, cyc, acked, applied, failedOnce, polledAcked, pollMissed>>
keyVars == <<mk, derivs, waiting, ret, keyFor, keyOrigin, deferred, unzeroed>>
cacheVars == <<slot, loadLog>>
utilVars == <<attempts, limLog, extensionHeartbeats, statusLog, accepted>>
appVars == <<sync, api, page, dash>>
vars == <<vaultVars, queueVars, env, keyVars, cacheVars, utilVars, appVars, now>>

\* the master-key manager before any call (part_002, the initial state)
KeyIdle ==
  [masterKey |-> None, isLoading |-> FALSE, promise |-> None, lastAddress |-> None,
   createdAt |-> None, accessCount |-> 0, lastAccessTime |-> None,
   clearanceTimer |-> FALSE]

NoRet == [from |-> "none", address |-> 0, key |-> 0, callers |-> {}]

InitKeyIdle ==
  /\ mk = KeyIdle
  /\ derivs = <<>>
  /\ waiting = [c \in Callers |-> 0]
  /\ ret = NoRet
  /\ keyFor = [a \in Addresses |-> {}]
  /\ keyOrigin = "none"
  /\ deferred = 0
  /\ unzeroed = FALSE

InitCacheIdle ==
  /\ slot = [k \in Kinds |-> None]
  /\ loadLog = None

LimiterKeys == {1, 2}
ExtensionIds == {"default", "a", "b"}

\* SecureSessionManager before any call, with no request in flight
SyncIdle ==
  [isSyncing |-> FALSE, promise |-> <<>>, lastSyncKey |-> <<>>, sessionId |-> <<>>,
   createdAt |-> <<>>, rotationInterval |-> FALSE, posts |-> <<>>, issued |-> 0,
   ret |-> <<>>]

\* the API server with no session stored
ApiIdle == [session |-> FALSE, last |-> <<>>]

\* the content script before it has run on the page
PageIdle ==
  [boot |-> TRUE, forms |-> FALSE, processed |-> FALSE, isInitializing |-> FALSE,
   checking |-> FALSE, cache |-> <<>>, debounceTimer |-> FALSE, mutation |-> FALSE,
   notification |-> FALSE, fetching |-> FALSE, widget |-> "none",
   submit |-> "none", submits |-> 0, prompt |-> "none", promptAttached |-> FALSE,
   promptTimer |-> FALSE, savedTimer |-> FALSE, unloaded |-> FALSE]

\* Dashboard before loadCredentials ran
DashIdle == [credentials |-> <<>>, last |-> <<>>]

InitAppIdle ==
  /\ sync = SyncIdle
  /\ api = ApiIdle
  /\ page = PageIdle
  /\ dash = DashIdle

InitUtilIdle ==
  /\ attempts = [k \in LimiterKeys |-> None]
  /\ limLog = None
  /\ extensionHeartbeats = [id \in ExtensionIds |-> None]
  /\ statusLog = [ping |-> None, status |-> None]
  /\ accepted = [k \in LimiterKeys |-> <<>>]

\* ------------------------------------------------------------------- ledger
Fps == KMs \X Domains

\* VaultEntry.data as the client reads it: fmt "arr" is a JSON array (ids: its
\* elements, n > 0 a non-empty string, 0 the empty string, -1 not a string),
\* "json" is JSON that is no array, "raw" is not JSON (raw: the bytes).
ArrData(ids) == [fmt |-> "arr", ids |-> ids, raw |-> <<>>]
RawData(bytes) == [fmt |-> "raw", ids |-> <<>>, raw |-> bytes]

Entry(data, entryNonce, sessionNonce) ==
  [data |-> data, entryNonce |-> entryNonce, sessionNonce |-> sessionNonce]

\* entry_exists
CheckCredentialExists(fp) == ledger[fp] # None

\* the blob ids saveCredential starts from when the entry exists
ExistingBlobIdsDropped(info) == <<>>

ExistingBlobIds(info) ==
  IF info = None THEN <<>>
  ELSE IF info[1].data.fmt = "arr" THEN info[1].data.ids
  ELSE <<>>

\* ------------------------------------------------------------ getCredential
IsBlobArray(data) ==
  /\ data.fmt = "arr"
  /\ \A i \in 1..Len(data.ids) : data.ids[i] > 0

NullResult == [kind |-> "null", creds |-> <<>>]
Thrown == [kind |-> "throw", creds |-> <<>>]
Listed(creds) == [kind |-> "list", creds |-> creds]

Cred(d, u, p) == [domain |-> d, username |-> u, password |-> p]

\* one blob of the map: None when it is skipped
DecodeBlob(domain, KM, blobData) ==
  LET parsed == ParseBlob(blobData) IN
  IF ~parsed.ok THEN None
  ELSE LET dec == Decrypt(parsed.iv, parsed.ct, DeriveKS(KM, parsed.sn)) IN
       IF ~dec.ok THEN None
       ELSE LET c == ParseCredentialJson(dec.pt) IN
            IF ~c.ok \/ c.username = 0 \/ c.password = 0 THEN None
            ELSE Some(Cred(domain, c.username, c.password))

\* retrieveBlobs: a Map keyed by blob id in the order of first occurrence,
\* without the blobs that could not be fetched
RECURSIVE BlobMapKeys(_, _, _)
BlobMapKeys(ids, down, seen) ==
  IF ids = <<>> THEN <<>>
  ELSE LET id == Head(ids)
           ok == id \in 1..Len(blobs) /\ id \notin down /\ id \notin seen
       IN (IF ok THEN <<id>> ELSE <<>>) \o BlobMapKeys(Tail(ids), down, seen \cup {id})

DecodeAllOrNothing(domain, KM, keys) ==
  LET all == [i \in 1..Len(keys) |-> DecodeBlob(domain, KM, blobs[keys[i]])] IN
  IF \E i \in 1..Len(keys) : all[i] = None THEN <<>>
  ELSE [i \in 1..Len(keys) |-> all[i][1]]

RECURSIVE DecodeAll(_, _, _)
DecodeAll(domain, KM, keys) ==
  IF keys = <<>> THEN <<>>
  ELSE DecodeBlob(domain, KM, blobs[Head(keys)]) \o DecodeAll(domain, KM, Tail(keys))

LegacyDecodeNoNonce(domain, KM, info) ==
  LET dec == Decrypt(info.entryNonce, info.data.raw, DeriveKS(KM, <<>>)) IN
  IF ~dec.ok THEN Thrown
  ELSE LET c == ParseCredentialJson(dec.pt) IN
       IF ~c.ok \/ c.username = 0 \/ c.password = 0 THEN Thrown
       ELSE Listed(<<Cred(domain, c.username, c.password)>>)

LegacyDecode(domain, KM, info) ==
  LET dec == Decrypt(info.entryNonce, info.data.raw, DeriveKS(KM, info.sessionNonce)) IN
  IF ~dec.ok THEN Thrown
  ELSE LET c == ParseCredentialJson(dec.pt) IN
       IF ~c.ok \/ c.username = 0 \/ c.password = 0 THEN Thrown
       ELSE Listed(<<Cred(domain, c.username, c.password)>>)

GetCredential(domain, KM, down) ==
  LET fp == HashDomain(domain, KM) IN
  IF ~vault THEN NullResult
  ELSE IF ~CheckCredentialExists(fp) THEN NullResult
  ELSE LET info == ledger[fp][1] IN
       IF ~IsBlobArray(info.data) THEN LegacyDecode(domain, KM, info)
       ELSE IF info.data.ids = <<>> THEN NullResult
       ELSE LET keys == BlobMapKeys(info.data.ids, down, {}) IN
            IF keys = <<>> THEN NullResult
            ELSE LET creds == DecodeAll(domain, KM, keys) IN
                 IF creds = <<>> THEN NullResult ELSE Listed(creds)

\* ----------------------------------------------------------- saveCredential
IdleSave == [pc |-> "idle", cred |-> Cred(0, 0, 0), km |-> 0, exists |-> FALSE,
             blobId |-> 0, ids |-> <<>>, item |-> 0]

SaveFp(p) == HashDomain(sv[p].cred.domain, sv[p].km)

Active(p) == sv[p].pc \in {"checked", "stored", "read"}

\* hashDomain, getOrCreateVault, checkCredentialExists
SaveBegin(p, cred, KM, item) ==
  /\ sv[p].pc = "idle"
  /\ LET fp == HashDomain(cred.domain, KM) IN
     /\ vault' = TRUE
     /\ sv' = [sv EXCEPT ![p] = [IdleSave EXCEPT !.pc = "checked", !.cred = cred,
                                  !.km = KM, !.item = item,
                                  !.exists = CheckCredentialExists(fp)]]
     /\ clean' = [clean EXCEPT ![fp] =
                    @ /\ ~\E q \in Procs \ {p} : Active(q) /\ SaveFp(q) = fp]
  /\ getLog' = None
  /\ UNCHANGED <<ledger, blobs, saved, lastSave>>

\* generateSessionNonce, deriveKS, encrypt, the envelope, storeBlob
NewBlob(cred, KM, n) ==
  LET sessionNonce == <<n>>
      enc == Encrypt(CredentialJson(cred), DeriveKS(KM, sessionNonce), <<100 + n>>)
  IN PackBlob(sessionNonce, enc.iv, enc.ct)

SavePut(p) ==
  /\ sv[p].pc = "checked"
  /\ Len(blobs) < MaxBlobs
  /\ blobs' = Append(blobs, NewBlob(sv[p].cred, sv[p].km, Len(blobs) + 1))
  /\ sv' = [sv EXCEPT ![p].pc = "stored", ![p].blobId = Len(blobs) + 1]
  /\ getLog' = None
  /\ UNCHANGED <<vault, ledger, saved, clean, lastSave>>

SavePutFailContinues(p) ==
  /\ sv[p].pc = "checked"
  /\ sv' = [sv EXCEPT ![p].pc = "stored"]
  /\ getLog' = None
  /\ UNCHANGED <<vault, ledger, blobs, saved, clean, lastSave>>

\* no wallet / signer, or storeBlob throws
SavePutFail(p) ==
  /\ sv[p].pc = "checked"
  /\ sv' = [sv EXCEPT ![p].pc = "failed"]
  /\ getLog' = None
  /\ UNCHANGED <<vault, ledger, blobs, saved, clean, lastSave>>

\* getCredentialInfoFromDynamicField, JSON.parse, blobIds.push(blobId)
SaveRead(p) ==
  /\ sv[p].pc = "stored"
  /\ sv' = [sv EXCEPT ![p].pc = "read",
                      ![p].ids = (IF sv[p].exists
                                  THEN ExistingBlobIds(ledger[SaveFp(p)])
                                  ELSE <<>>) \o <<sv[p].blobId>>]
  /\ getLog' = None
  /\ UNCHANGED <<vault, ledger, blobs, saved, clean, lastSave>>

\* update_entry aborts with EEntryNotFound, add_entry with EEntryAlreadyExists
LedgerAccepts(fp, isUpdate) == isUpdate = (ledger[fp] # None)

SaveWrite(p) ==
  /\ sv[p].pc = "read"
  /\ LET fp == SaveFp(p) IN
     IF LedgerAccepts(fp, sv[p].exists)
     THEN /\ ledger' = [ledger EXCEPT ![fp] = Some(Entry(ArrData(sv[p].ids), <<>>, <<>>))]
          /\ sv' = [sv EXCEPT ![p].pc = "done"]
          /\ saved' = [saved EXCEPT ![fp] =
                         Append(@, [id |-> sv[p].blobId, cred |-> sv[p].cred])]
          /\ lastSave' = Some([fp |-> fp, cred |-> sv[p].cred,
                               existed |-> sv[p].exists, id |-> sv[p].blobId])
          /\ applied' = IF sv[p].item = 0 THEN applied
                        ELSE [applied EXCEPT ![sv[p].item] = @ \cup {sv[p].blobId}]
     ELSE /\ sv' = [sv EXCEPT ![p].pc = "failed"]
          /\ UNCHANGED <<ledger, saved, lastSave, applied>>
  /\ getLog' = None
  /\ UNCHANGED <<vault, blobs, clean>>

\* the transaction is not signed or not executed
SaveWriteFail(p) ==
  /\ sv[p].pc = "read"
  /\ sv' = [sv EXCEPT ![p].pc = "failed"]
  /\ getLog' = None
  /\ UNCHANGED <<vault, ledger, blobs, saved, clean, lastSave>>

\* the call returns or throws to a direct caller (Dashboard.handleAddCredential)
SaveReturn(p) ==
  /\ sv[p].pc \in {"done", "failed"}
  /\ sv[p].item = 0
  /\ sv' = [sv EXCEPT ![p] = IdleSave]
  /\ getLog' = None
  /\ UNCHANGED <<vault, ledger, blobs, saved, clean, lastSave>>

\* ------------------------------------------------- getCredential (a caller)
\* the blob ids a read of the record asks the blob store for
ListedIds(fp) ==
  IF ledger[fp] = None THEN {}
  ELSE {x \in Range(ledger[fp][1].data.ids) : x > 0}

\* the branch of getCredential that decodes the record: the try block that
\* found an array of non-empty strings, or its catch block
DecodePath(domain, KM) ==
  LET fp == HashDomain(domain, KM) IN
  IF ~vault \/ ~CheckCredentialExists(fp) THEN "none"
  ELSE IF IsBlobArray(ledger[fp][1].data) THEN "current"
  ELSE "legacy"

Get(domain, KM, down) ==
  /\ getLog' = Some([domain |-> domain, km |-> KM, down |-> down,
                     res |-> GetCredential(domain, KM, down),
                     path |-> DecodePath(domain, KM),
                     after |-> lastSave,
                     clean |-> clean[HashDomain(domain, KM)],
                     saved |-> saved[HashDomain(domain, KM)]])
  /\ UNCHANGED <<vault, ledger, blobs, sv, saved, clean, lastSave>>

\* --------------------------------------------------------- deleteCredential
\* what the call hands to its caller: the transaction hash, or the error
\* 'No credential found for domain'
DeleteOutcome(domain, KM) ==
  [domain |-> domain, km |-> KM, down |-> {},
   res |-> IF CheckCredentialExists(HashDomain(domain, KM))
           THEN [kind |-> "deleted", creds |-> <<>>] ELSE Thrown,
   path |-> "delete", after |-> None, clean |-> FALSE, saved |-> <<>>]

DeleteCredentialWithCleanup(domain, KM) ==
  LET fp == HashDomain(domain, KM) IN
  /\ vault' = TRUE
  /\ IF CheckCredentialExists(fp)
     THEN /\ ledger' = [ledger EXCEPT ![fp] = None]
          /\ saved' = [saved EXCEPT ![fp] = <<>>]
          /\ clean' = [clean EXCEPT ![fp] =
                         ~\E q \in Procs : Active(q) /\ SaveFp(q) = fp]
          /\ lastSave' = None
          /\ blobs' = <<>>
     ELSE UNCHANGED <<ledger, saved, clean, lastSave, blobs>>
  /\ getLog' = Some(DeleteOutcome(domain, KM))
  /\ UNCHANGED sv

DeleteCredential(domain, KM) ==
  LET fp == HashDomain(domain, KM) IN
  /\ vault' = TRUE
  /\ IF CheckCredentialExists(fp)
     THEN /\ ledger' = [ledger EXCEPT ![fp] = None]
          /\ saved' = [saved EXCEPT ![fp] = <<>>]
          /\ clean' = [clean EXCEPT ![fp] =
                         ~\E q \in Procs : Active(q) /\ SaveFp(q) = fp]
          /\ lastSave' = None
     ELSE UNCHANGED <<ledger, saved, clean, lastSave>>
  /\ getLog' = Some(DeleteOutcome(domain, KM))
  /\ UNCHANGED <<blobs, sv>>

\* ------------------------------------------------------ vault specification
LegacyNonce == <<9>>
LegacyIv == <<109>>
LegacyCred == Cred(1, 1, 1)
LegacyFp == HashDomain(1, 1)
LegacyEntry ==
  Entry(RawData(Encrypt(CredentialJson(LegacyCred), DeriveKS(1, LegacyNonce), LegacyIv).ct),
        LegacyIv, LegacyNonce)

InitVault ==
  /\ vault \in BOOLEAN
  /\ ledger \in {[fp \in Fps |-> None],
                 [fp \in Fps |-> IF fp = LegacyFp THEN Some(LegacyEntry) ELSE None]}
  /\ ledger[LegacyFp] # None => vault
  /\ blobs = <<>>
  /\ sv = [p \in Procs |-> IdleSave]
  /\ saved = [fp \in Fps |-> <<>>]
  /\ clean = [fp \in Fps |-> ledger[fp] = None]
  /\ lastSave = None
  /\ getLog = None

IdleCyc == [pc |-> "idle", pending |-> <<>>, i |-> 0]

InitQueueIdle ==
  /\ queue = <<>>
  /\ nextId = 1
  /\ cyc = [p \in Procs |-> IdleCyc]
  /\ acked = {}
  /\ applied = <<>>
  /\ failedOnce = {}
  /\ polledAcked = FALSE
  /\ pollMissed = FALSE

EnvIdle == [pc |-> "off", sn |-> <<>>, iv |-> <<>>, ct |-> <<>>, blob |-> <<>>,
            out |-> Malformed, reads |-> {}]

Init == InitVault /\ InitQueueIdle /\ env = EnvIdle /\ InitKeyIdle /\ InitCacheIdle /\ InitUtilIdle /\ InitAppIdle /\ now = 0

Next ==
  \/ \E p \in Procs, d \in Domains, u \in Names, pw \in Passwords, km \in SaveKMs :
       SaveBegin(p, Cred(d, u, pw), km, 0) /\ UNCHANGED <<queueVars, env, keyVars, cacheVars, utilVars, appVars, now>>
  \/ \E p \in Procs : SavePut(p) /\ UNCHANGED <<queueVars, env, keyVars, cacheVars, utilVars, appVars, now>>
  \/ \E p \in Procs : SavePutFail(p) /\ UNCHANGED <<queueVars, env, keyVars, cacheVars, utilVars, appVars, now>>
  \/ \E p \in Procs : SaveRead(p) /\ UNCHANGED <<queueVars, env, keyVars, cacheVars, utilVars, appVars, now>>
  \/ \E p \in Procs : SaveWrite(p) /\ UNCHANGED <<queue, nextId, cyc, acked, failedOnce, polledAcked, pollMissed, env, keyVars, cacheVars, utilVars, appVars, now>>
  \/ \E p \in Procs : SaveWriteFail(p) /\ UNCHANGED <<queueVars, env, keyVars, cacheVars, utilVars, appVars, now>>
  \/ \E p \in Procs : SaveReturn(p) /\ UNCHANGED <<queueVars, env, keyVars, cacheVars, utilVars, appVars, now>>
  \/ \E d \in Domains, km \in KMs :
       \E down \in SUBSET ListedIds(HashDomain(d, km)) :
         Get(d, km, down) /\ UNCHANGED <<queueVars, env, keyVars, cacheVars, utilVars, appVars, now>>
  \/ \E d \in Domains, km \in KMs : DeleteCredential(d, km) /\ UNCHANGED <<queueVars, env, keyVars, cacheVars, utilVars, appVars, now>>

Spec == Init /\ [][Next]_vars

\* ------------------------------------------------------------ vault claims
SavedIds(fp) == [i \in 1..Len(saved[fp]) |-> saved[fp][i].id]

\* C1: a successful save of c for a domain that had no record, followed by
\* getCredential for that domain with the same master key, no ledger write in
\* between and the blob fetched, returns the list holding exactly c.
C1_SaveThenGet ==
  getLog # None =>
    LET g == getLog[1] IN
    (/\ g.after # None
     /\ g.after[1].fp = HashDomain(g.domain, g.km)
     /\ ~g.after[1].existed
     /\ g.after[1].id \notin g.down)
    => g.res = Listed(<<g.after[1].cred>>)

C1_Witness ==
  /\ getLog # None
  /\ getLog[1].after # None
  /\ getLog[1].after[1].fp = HashDomain(getLog[1].domain, getLog[1].km)
  /\ ~getLog[1].after[1].existed
  /\ getLog[1].after[1].id \notin getLog[1].down
  /\ getLog[1].res.kind = "list"

\* C2: after n successful non-overlapping saves for one domain the record's
\* payloadRef is the array of the n blob ids in save order, with empty
\* on-ledger nonces, and getCredential (every blob fetched) returns the n
\* credentials in that order.
C2_Additive ==
  /\ \A fp \in Fps :
       clean[fp] =>
         IF saved[fp] = <<>> THEN ledger[fp] = None
         ELSE ledger[fp] = Some(Entry(ArrData(SavedIds(fp)), <<>>, <<>>))
  /\ getLog # None =>
       LET g == getLog[1] IN
       (g.clean /\ g.down = {} /\ g.saved # <<>>)
       => g.res = Listed([i \in 1..Len(g.saved) |-> g.saved[i].cred])

C2_Witness ==
  /\ getLog # None
  /\ getLog[1].clean
  /\ getLog[1].down = {}
  /\ Len(getLog[1].saved) = 2
  /\ getLog[1].saved[1].cred # getLog[1].saved[2].cred
  /\ Len(getLog[1].res.creds) = 2

\* C22: the blob identifier every successful save wrote for a fingerprint is
\* in the record of that fingerprint, also when another save changed the
\* record between this save's read of the array and its ledger write.
C22_NoLostUpdate ==
  \A fp \in Fps :
    \A i \in 1..Len(saved[fp]) :
      /\ ledger[fp] # None
      /\ saved[fp][i].id \in Range(ledger[fp][1].data.ids)

\* C23: a save that is about to write issues the ledger operation the ledger
\* accepts: add_entry when no record exists for the fingerprint, update_entry
\* when one exists, so that no save is rejected with EEntryAlreadyExists or
\* EEntryNotFound.
C23_AddOrUpdate ==
  \A p \in Procs :
    sv[p].pc = "read" => LedgerAccepts(SaveFp(p), sv[p].exists)

\* C25: deleteCredential for a domain with a record removes that record from
\* the ledger and leaves the blob store as it is; for a domain with no record
\* it throws and removes nothing.
C25_DeleteLedgerOnly ==
  [][\A d \in Domains, km \in KMs :
       DeleteCredential(d, km) =>
         /\ blobs' = blobs
         /\ IF ledger[HashDomain(d, km)] # None
            THEN /\ ledger' = [ledger EXCEPT ![HashDomain(d, km)] = None]
                 /\ getLog'[1].res.kind = "deleted"
            ELSE /\ ledger' = ledger
                 /\ getLog'[1].res = Thrown]_vars

\* a record made by a save was deleted and its blob is still stored
C25_Witness ==
  /\ getLog # None
  /\ getLog[1].path = "delete"
  /\ getLog[1].res.kind = "deleted"
  /\ ledger[HashDomain(getLog[1].domain, getLog[1].km)] = None
  /\ blobs # <<>>

\* C26: when a record exists for the fingerprint, every credential that
\* getCredential returned before a successful save is returned after it, also
\* when the existing record is in legacy format.
C26_SaveKeepsStored ==
  [][\A d \in Domains, km \in KMs :
       (/\ ledger[HashDomain(d, km)] # None
        /\ \E p \in Procs : /\ SaveWrite(p)
                            /\ SaveFp(p) = HashDomain(d, km)
                            /\ sv'[p].pc = "done")
       => \A i \in 1..Len(GetCredential(d, km, {}).creds) :
            \E j \in 1..Len(GetCredential(d, km, {}).creds') :
              GetCredential(d, km, {}).creds'[j] = GetCredential(d, km, {}).creds[i]]_vars

\* the blob identifiers a record lists
RecordIds(fp) ==
  IF ledger[fp] = None THEN {} ELSE Range(ledger[fp][1].data.ids)

\* C34: the ledger write is the last effectful step of a save and comes only
\* after the blob store returned an identifier; a save that fails leaves every
\* record unchanged (at most an unreferenced blob remains); and every
\* identifier written to a record was returned by a successful blob put.
C34_SaveAtomic ==
  /\ [](\A fp \in Fps : RecordIds(fp) \subseteq 1..Len(blobs))
  /\ [][\A p \in Procs :
          /\ (sv[p].pc # "failed" /\ sv'[p].pc = "failed") => ledger' = ledger
          /\ sv[p].pc \in {"done", "failed"} =>
                (sv'[p] # sv[p] => (sv'[p] = IdleSave /\ ledger' = ledger /\ blobs' = blobs))
          /\ (SaveWrite(p) /\ ledger' # ledger) =>
                /\ sv[p].blobId \in 1..Len(blobs)
                /\ sv'[p].pc = "done"
                /\ blobs' = blobs
                /\ \A fp \in Fps \ {SaveFp(p)} : ledger'[fp] = ledger[fp]]_vars
  /\ [][(\E fp \in Fps : ledger'[fp] # ledger[fp] /\ ledger'[fp] # None)
          => \E p \in Procs : sv[p].pc = "read" /\ sv'[p].pc = "done"]_vars

\* a save stored its blob and then failed: the blob is in the store, no
\* record lists it, and the record of its domain is the one an earlier save
\* wrote
C34_Witness ==
  \E p \in Procs :
    /\ sv[p].pc = "failed"
    /\ sv[p].blobId \in 1..Len(blobs)
    /\ \A fp \in Fps : sv[p].blobId \notin RecordIds(fp)
    /\ ledger[SaveFp(p)] # None
    /\ RecordIds(SaveFp(p)) # {}

\* ------------------------------------------------------ read specification
\* getCredential over the records and blob stores it can find: written by this
\* client, by an older client (legacy), or by anything else that owns the vault
IdVals == {-1, 0, 1, 2}
JsonData == [fmt |-> "json", ids |-> <<>>, raw |-> <<>>]

ReadEntries ==
  {Entry(ArrData(ids), <<>>, <<>>) : ids \in SeqsUpTo(IdVals, MaxIds)}
  \cup {Entry(JsonData, <<>>, <<>>),
        LegacyEntry,
        Entry(RawData(Encrypt(CredentialJson(Cred(1, 2, 1)), DeriveKS(1, <<8>>), <<108>>).ct),
              <<108>>, <<8>>),
        Entry(LegacyEntry.data, <<>>, <<>>),
        Entry(RawData(<<5>>), LegacyIv, LegacyNonce)}

\* a blob of this client, one of another account, one without a username,
\* one under another master key, one that is no envelope
BlobChoices ==
  {NewBlob(Cred(1, 1, 1), 1, 1), NewBlob(Cred(1, 2, 1), 1, 2),
   NewBlob(Cred(1, 0, 1), 1, 1), NewBlob(Cred(1, 1, 1), 2, 1), <<>>}

ReadStores == {<<>>} \cup [1..MaxBlobs -> BlobChoices]

InitRead ==
  /\ vault \in BOOLEAN
  /\ ledger \in {[fp \in Fps |-> IF fp = LegacyFp THEN e ELSE None] :
                   e \in {None} \cup {Some(x) : x \in ReadEntries}}
  /\ ledger[LegacyFp] # None => vault
  /\ blobs \in ReadStores
  /\ sv = [p \in Procs |-> IdleSave]
  /\ saved = [fp \in Fps |-> <<>>]
  /\ clean = [fp \in Fps |-> ledger[fp] = None]
  /\ lastSave = None
  /\ getLog = None
  /\ InitQueueIdle /\ env = EnvIdle /\ InitKeyIdle /\ InitCacheIdle /\ InitUtilIdle /\ InitAppIdle /\ now = 0

NextRead ==
  \E d \in Domains, km \in KMs :
    \E down \in SUBSET ListedIds(HashDomain(d, km)) :
      Get(d, km, down) /\ UNCHANGED <<queueVars, env, keyVars, cacheVars, utilVars, appVars, now>>

SpecRead == InitRead /\ [][NextRead]_vars

\* the record a finished getCredential call looked at
ReadRecord == ledger[HashDomain(getLog[1].domain, getLog[1].km)]

\* C12: a record is decoded on the current path if and only if its payloadRef
\* is a non-empty JSON array of non-empty strings; every other payloadRef
\* (not JSON, no array, the empty array, an array with an element that is no
\* string or is empty) is decoded on the legacy path.
C12_Classification ==
  (getLog # None /\ vault /\ ReadRecord # None) =>
    LET data == ReadRecord[1].data IN
    /\ getLog[1].path \in {"current", "legacy"}
    /\ getLog[1].path = "current" <=>
         (/\ data.fmt = "arr"
          /\ data.ids # <<>>
          /\ \A i \in 1..Len(data.ids) : data.ids[i] > 0)

\* the ciphertext an older client stored on the ledger for credential c
LegacyCiphertext(c, KM, e) ==
  Encrypt(CredentialJson(c), DeriveKS(KM, e.sessionNonce), e.entryNonce).ct

\* C13: for a record whose payloadRef is raw ciphertext and whose on-ledger
\* entry and session nonces are populated, getCredential derives the session
\* key from the on-ledger session nonce, decrypts with the on-ledger entry
\* nonce and returns the list holding the one stored credential.
C13_LegacyCompat ==
  (getLog # None /\ vault /\ ReadRecord # None) =>
    LET e == ReadRecord[1]
        g == getLog[1]
    IN \A u \in Names, pw \in Passwords :
         (/\ e.data.fmt = "raw"
          /\ e.entryNonce # <<>>
          /\ e.sessionNonce # <<>>
          /\ e.data.raw = LegacyCiphertext(Cred(g.domain, u, pw), g.km, e))
         => /\ g.path = "legacy"
            /\ g.res = Listed(<<Cred(g.domain, u, pw)>>)

C13_Witness ==
  /\ getLog # None
  /\ vault
  /\ ReadRecord # None
  /\ ReadRecord[1].data.fmt = "raw"
  /\ ReadRecord[1].sessionNonce # <<>>
  /\ ReadRecord[1].data.raw =
       LegacyCiphertext(Cred(getLog[1].domain, 2, 1), getLog[1].km, ReadRecord[1])
  /\ getLog[1].res = Listed(<<Cred(getLog[1].domain, 2, 1)>>)

\* the blob b holds a credential readable under KM
Readable(KM, b) ==
  LET parsed == ParseBlob(b)
      dec == Decrypt(parsed.iv, parsed.ct, DeriveKS(KM, parsed.sn))
      c == ParseCredentialJson(dec.pt)
  IN parsed.ok /\ dec.ok /\ c.ok /\ c.username # 0 /\ c.password # 0

StoredCred(domain, KM, b) ==
  LET parsed == ParseBlob(b)
      c == ParseCredentialJson(Decrypt(parsed.iv, parsed.ct, DeriveKS(KM, parsed.sn)).pt)
  IN Cred(domain, c.username, c.password)

\* the positions of payloadRef whose identifier occurs there first and whose
\* blob was fetched and is readable
GoodPositions(ids, KM, down) ==
  SelectSeq([i \in 1..Len(ids) |-> i],
            LAMBDA i : /\ \A j \in 1..(i - 1) : ids[j] # ids[i]
                       /\ ids[i] \in 1..Len(blobs)
                       /\ ids[i] \notin down
                       /\ Readable(KM, blobs[ids[i]]))

\* C14: for a current-format record getCredential returns exactly the
\* credentials of the blob identifiers whose blob was fetched, parsed and
\* decrypted, in payloadRef order; a missing, malformed or undecryptable blob
\* is skipped and does not keep the other credentials from being returned.
C14_PartialDecode ==
  (getLog # None /\ getLog[1].path = "current") =>
    LET g == getLog[1]
        ids == ReadRecord[1].data.ids
        good == GoodPositions(ids, g.km, g.down)
    IN /\ g.res.kind # "throw"
       /\ g.res.creds = [k \in 1..Len(good) |-> StoredCred(g.domain, g.km, blobs[ids[good[k]]])]
       /\ good # <<>> => g.res.kind = "list"

C14_Witness ==
  /\ getLog # None
  /\ getLog[1].path = "current"
  /\ Len(ReadRecord[1].data.ids) = 2
  /\ ReadRecord[1].data.ids[1] \in 1..Len(blobs)
  /\ ReadRecord[1].data.ids[1] \notin getLog[1].down
  /\ ~Readable(getLog[1].km, blobs[ReadRecord[1].data.ids[1]])
  /\ getLog[1].res.kind = "list"
  /\ Len(getLog[1].res.creds) = 1

\* C15: the result of getCredential when a record exists but none of its
\* entries can be decoded differs from its result when no record exists for
\* the domain (which is null).
C15_AbsentVsUndecodable ==
  (getLog # None /\ vault /\ ReadRecord # None) =>
    (getLog[1].res.kind # "list" => getLog[1].res # NullResult)

\* C27: stored data that cannot be decrypted or parsed, in the current or in
\* the legacy format, never makes getCredential throw (the ledger of this
\* model reports no errors, so every throw comes from decoding).
C27_GetNeverThrows ==
  getLog # None => getLog[1].res.kind # "throw"

\* ------------------------------------------------- envelope specification
Bytes == SeqsUpTo(ByteVals, MaxFieldLen)

InitEnvelope ==
  /\ env \in {[pc |-> "input", sn |-> a, iv |-> b, ct |-> c, blob |-> <<>>,
               out |-> Malformed, reads |-> {}] : a \in Bytes, b \in Bytes, c \in Bytes}
  /\ vault = FALSE
  /\ ledger = [fp \in Fps |-> None]
  /\ blobs = <<>>
  /\ sv = [p \in Procs |-> IdleSave]
  /\ saved = [fp \in Fps |-> <<>>]
  /\ clean = [fp \in Fps |-> TRUE]
  /\ lastSave = None
  /\ getLog = None
  /\ InitQueueIdle
  /\ InitKeyIdle
  /\ InitCacheIdle
  /\ InitUtilIdle
  /\ InitAppIdle
  /\ now = 0

\* saveCredential builds blobData
EnvPack ==
  /\ env.pc = "input"
  /\ env' = [env EXCEPT !.pc = "packed", !.blob = PackBlob(env.sn, env.iv, env.ct)]
  /\ UNCHANGED <<vaultVars, queueVars, keyVars, cacheVars, utilVars, appVars, now>>

\* getCredential takes blobData apart
EnvParse ==
  /\ env.pc = "packed"
  /\ env' = [env EXCEPT !.pc = "parsed", !.out = ParseBlob(env.blob),
                         !.reads = ParseReads(env.blob)]
  /\ UNCHANGED <<vaultVars, queueVars, keyVars, cacheVars, utilVars, appVars, now>>

NextEnvelope == EnvPack \/ EnvParse

SpecEnvelope == InitEnvelope /\ [][NextEnvelope]_vars

\* C10: a blob packed from (nonce, iv, ciphertext), lengths in 0..255, any
\* ciphertext, the empty one included, parses back into the same three fields.
C10_RoundTrip ==
  env.pc = "parsed" =>
    env.out = [ok |-> TRUE, sn |-> env.sn, iv |-> env.iv, ct |-> env.ct]

\* what the parser does give back: every packed blob of three bytes or more
C10_RoundTripFrom3 ==
  (env.pc = "parsed" /\ Len(env.blob) >= 3) =>
    env.out = [ok |-> TRUE, sn |-> env.sn, iv |-> env.iv, ct |-> env.ct]

\* ----------------------------------------------------- decode specification
\* the parser of getCredential and of getCredentialByDomainHash (the same
\* statements) on any buffer the blob store may return
Buffers == SeqsUpTo(BufVals, MaxBufLen)

InitDecode ==
  /\ env \in {[pc |-> "packed", sn |-> <<>>, iv |-> <<>>, ct |-> <<>>, blob |-> b,
               out |-> Malformed, reads |-> {}] : b \in Buffers}
  /\ vault = FALSE
  /\ ledger = [fp \in Fps |-> None]
  /\ blobs = <<>>
  /\ sv = [p \in Procs |-> IdleSave]
  /\ saved = [fp \in Fps |-> <<>>]
  /\ clean = [fp \in Fps |-> TRUE]
  /\ lastSave = None
  /\ getLog = None
  /\ InitQueueIdle
  /\ InitKeyIdle
  /\ InitCacheIdle
  /\ InitUtilIdle
  /\ InitAppIdle
  /\ now = 0

NextDecode == EnvParse

SpecDecode == InitDecode /\ [][NextDecode]_vars

\* the lengths a buffer declares: none when the length byte is not in the buffer
DeclaredNonceLen(b) == IF Len(b) >= 1 THEN Some(b[1]) ELSE None

DeclaredIvLen(b) ==
  IF DeclaredNonceLen(b) # None /\ Len(b) >= 2 + DeclaredNonceLen(b)[1]
  THEN Some(b[2 + DeclaredNonceLen(b)[1]]) ELSE None

ShorterThanDeclared(b) ==
  \/ DeclaredNonceLen(b) = None
  \/ DeclaredIvLen(b) = None
  \/ Len(b) < 2 + DeclaredNonceLen(b)[1] + DeclaredIvLen(b)[1]

\* C11: on every buffer the parser reads only indices below the buffer length,
\* and a buffer shorter than 2 + declared nonce length + declared IV length is
\* rejected as malformed and yields no field.
C11_BoundsSafe ==
  env.pc = "parsed" =>
    /\ \A i \in env.reads : i >= 0 /\ i < Len(env.blob)
    /\ ShorterThanDeclared(env.blob) => env.out = Malformed

\* a buffer whose header declares a one-byte nonce and a seven-byte IV but
\* holds less was parsed and rejected
C11_Witness ==
  /\ env.pc = "parsed"
  /\ Len(env.blob) >= 3
  /\ env.blob[1] = 1
  /\ env.blob[3] = 7
  /\ env.reads = {0, 2}
  /\ env.out = Malformed

\* ------------------------------------------------------ pending-write queue
\* save-queue: queueSave appends under a new id, getPendingSaves lists what is
\* queued, removeFromQueue(id) removes the entry and tells whether it was there.
QueueSave(q, id, cred) == Append(q, [id |-> id, cred |-> cred])

GetPendingSaves(q) == q

RemoveFromQueue(q, id) == SelectSeq(q, LAMBDA e : e.id # id)

QueuedIds == {queue[k].id : k \in 1..Len(queue)}

\* POST /api/save-credential, POST /api/update-credential
Enqueue(cred) ==
  /\ nextId <= MaxPending
  /\ cred.domain # 0 /\ cred.username # 0 /\ cred.password # 0
  /\ queue' = QueueSave(queue, nextId, cred)
  /\ nextId' = nextId + 1
  /\ applied' = Append(applied, {})
  /\ UNCHANGED <<cyc, acked, failedOnce, polledAcked, pollMissed, vaultVars, env, keyVars, cacheVars, utilVars, appVars, now>>

\* ------------------------------------------------ Dashboard.processQueue
\* a poll tick: GET /api/pending-saves, then getMasterKey when the list is not empty
CycPoll(p) ==
  /\ cyc[p].pc = "idle"
  /\ sv[p].pc = "idle"
  /\ LET pending == GetPendingSaves(queue) IN
     /\ pending # <<>>
     /\ cyc' = [cyc EXCEPT ![p] = [pc |-> "loop", pending |-> pending, i |-> 1]]
     /\ polledAcked' = (polledAcked \/ \E k \in 1..Len(pending) : pending[k].id \in acked)
     /\ pollMissed' = (pollMissed \/
                       \E id \in 1..(nextId - 1) :
                         id \notin acked /\ id \notin {pending[k].id : k \in 1..Len(pending)})
  /\ UNCHANGED <<queue, nextId, acked, applied, failedOnce, vaultVars, env, keyVars, cacheVars, utilVars, appVars, now>>

CycItem(p) == cyc[p].pending[cyc[p].i]

\* for (const item of data.pending): the next item, or the end of the run
CycAdvance(c) ==
  IF c.i + 1 > Len(c.pending) THEN IdleCyc ELSE [c EXCEPT !.pc = "loop", !.i = c.i + 1]

CycSaveBegin(p) ==
  /\ cyc[p].pc = "loop"
  /\ \E km \in SaveKMs : SaveBegin(p, CycItem(p).cred, km, CycItem(p).id)
  /\ cyc' = [cyc EXCEPT ![p].pc = "saving"]
  /\ UNCHANGED <<queue, nextId, acked, applied, failedOnce, polledAcked, pollMissed, env, keyVars, cacheVars, utilVars, appVars, now>>

\* what follows saveCredential inside the try block of the loop
AfterSaveAlwaysAck(outcome) == "ack"

AfterSaveAckOnFailure(outcome) == IF outcome = "failed" THEN "ack" ELSE "next"

AfterSave(outcome) == IF outcome = "done" THEN "ack" ELSE "next"

CycSaveEnd(p) ==
  /\ cyc[p].pc = "saving"
  /\ sv[p].pc \in {"done", "failed"}
  /\ sv' = [sv EXCEPT ![p] = IdleSave]
  /\ failedOnce' = IF sv[p].pc = "failed" /\ applied[CycItem(p).id] = {}
                   THEN failedOnce \cup {CycItem(p).id}
                   ELSE failedOnce
  /\ cyc' = [cyc EXCEPT ![p] = IF AfterSave(sv[p].pc) = "ack"
                                THEN [@ EXCEPT !.pc = "ack"]
                                ELSE CycAdvance(@)]
  /\ getLog' = None
  /\ UNCHANGED <<queue, nextId, acked, applied, polledAcked, pollMissed,
                 vault, ledger, blobs, saved, clean, lastSave, env, keyVars, cacheVars, utilVars, appVars, now>>

\* POST /api/pending-saves/:id/complete answers (200 or 404), then loadCredentials
CycAck(p) ==
  /\ cyc[p].pc = "ack"
  /\ queue' = RemoveFromQueue(queue, CycItem(p).id)
  /\ acked' = IF CycItem(p).id \in QueuedIds THEN acked \cup {CycItem(p).id} ELSE acked
  /\ cyc' = [cyc EXCEPT ![p] = CycAdvance(@)]
  /\ UNCHANGED <<nextId, applied, failedOnce, polledAcked, pollMissed, vaultVars, env, keyVars, cacheVars, utilVars, appVars, now>>

\* the complete request does not reach the server: fetch rejects, the catch logs it
CycAckLost(p) ==
  /\ cyc[p].pc = "ack"
  /\ cyc' = [cyc EXCEPT ![p] = CycAdvance(@)]
  /\ UNCHANGED <<queue, nextId, acked, applied, failedOnce, polledAcked, pollMissed,
                 vaultVars, env, keyVars, cacheVars, utilVars, appVars, now>>

InitQueue ==
  /\ vault = TRUE
  /\ ledger = [fp \in Fps |-> None]
  /\ blobs = <<>>
  /\ sv = [p \in Procs |-> IdleSave]
  /\ saved = [fp \in Fps |-> <<>>]
  /\ clean = [fp \in Fps |-> TRUE]
  /\ lastSave = None
  /\ getLog = None
  /\ InitQueueIdle
  /\ InitKeyIdle
  /\ InitCacheIdle
  /\ InitUtilIdle
  /\ InitAppIdle
  /\ now = 0
  /\ env = EnvIdle

QueueRest == <<queue, nextId, cyc, acked, failedOnce, polledAcked, pollMissed, env, keyVars, cacheVars, utilVars, appVars, now>>

NextQueue ==
  \/ \E d \in Domains, u \in QueueNames, pw \in Passwords : Enqueue(Cred(d, u, pw))
  \/ \E p \in Procs : CycPoll(p)
  \/ \E p \in Procs : CycSaveBegin(p)
  \/ \E p \in Procs : SavePut(p) /\ UNCHANGED <<queueVars, env, keyVars, cacheVars, utilVars, appVars, now>>
  \/ \E p \in Procs : SavePutFail(p) /\ UNCHANGED <<queueVars, env, keyVars, cacheVars, utilVars, appVars, now>>
  \/ \E p \in Procs : SaveRead(p) /\ UNCHANGED <<queueVars, env, keyVars, cacheVars, utilVars, appVars, now>>
  \/ \E p \in Procs : SaveWrite(p) /\ UNCHANGED QueueRest
  \/ \E p \in Procs : SaveWriteFail(p) /\ UNCHANGED <<queueVars, env, keyVars, cacheVars, utilVars, appVars, now>>
  \/ \E p \in Procs : CycSaveEnd(p)
  \/ \E p \in Procs : CycAck(p)
  \/ \E p \in Procs : CycAckLost(p)

SpecQueue == InitQueue /\ [][NextQueue]_vars

\* ------------------------------------------------------------ queue claims
Enqueued == 1..(nextId - 1)

\* C3: every pending write that the queue accepted has exactly one blob id
\* appended to the ledger for it: never two, and one once it left the queue.
C3_ExactlyOnce ==
  \A id \in Enqueued :
    /\ Cardinality(applied[id]) <= 1
    /\ id \notin QueuedIds => Cardinality(applied[id]) = 1

\* C35: drain cycles do not overlap: at no time is one pending entry being
\* saved by two runs of processQueue.
C35_NoOverlap ==
  \A p, q \in Procs :
    (p # q /\ cyc[p].pc = "saving" /\ cyc[q].pc = "saving")
      => CycItem(p).id # CycItem(q).id

\* C4: an entry stays queued, and is returned by every poll, until a save of it
\* has succeeded and its complete request was served (so an entry whose save
\* threw is kept for the next poll); an acknowledged entry is not queued any
\* more and no later poll returns it.
C4_Retention ==
  /\ \A id \in Enqueued : applied[id] = {} => id \in QueuedIds
  /\ \A id \in Enqueued : id \notin acked => id \in QueuedIds
  /\ \A id \in acked : id \notin QueuedIds
  /\ ~pollMissed
  /\ ~polledAcked

\* a save of the entry threw, a later poll returned it, its save succeeded and
\* the entry was acknowledged
C4_Witness ==
  \E id \in failedOnce :
    /\ id \in acked
    /\ applied[id] # {}
    /\ \A p \in Procs : cyc[p].pc = "idle"

\* C24: of two pending entries for one domain (every entry of this model is
\* for the one domain) the one enqueued first has its blob identifier written
\* to the record before the one enqueued later, also after a failed attempt.
C24_DomainOrder ==
  \A fp \in Fps :
    \A i, j \in Enqueued :
      i < j =>
        \A pj \in 1..Len(saved[fp]) :
          saved[fp][pj].id \in applied[j] =>
            \E pi \in 1..(pj - 1) : saved[fp][pi].id \in applied[i]

\* C28: a drain cycle goes on to send the complete request for an entry only
\* from the successful return of its own saveCredential call for that entry;
\* after a save that threw it does not, and an entry becomes acknowledged
\* only through such a request.
C28_AckFollowsSuccess ==
  [][/\ \A p \in Procs :
          /\ (cyc[p].pc # "ack" /\ cyc'[p].pc = "ack")
               => /\ cyc[p].pc = "saving"
                  /\ sv[p].pc = "done"
                  /\ sv[p].item = CycItem(p).id
                  /\ cyc'[p].i = cyc[p].i
                  /\ cyc'[p].pending = cyc[p].pending
          /\ (cyc[p].pc = "saving" /\ sv[p].pc = "failed" /\ cyc'[p] # cyc[p])
               => cyc'[p].pc # "ack"
     /\ \A id \in acked' \ acked :
          \E p \in Procs : cyc[p].pc = "ack" /\ CycItem(p).id = id]_vars

\* the save of an entry threw in an earlier cycle; now a save of it returned
\* and the cycle is about to acknowledge it
C28_Witness ==
  \E p \in Procs :
    /\ cyc[p].pc = "ack"
    /\ CycItem(p).id \in failedOnce
    /\ CycItem(p).id \notin acked

\* ------------------------------------------------------ master-key manager
\* Time is counted in clock ticks; the three limits keep the order they have
\* in the program (idle timeout < maximum age).
MAX_KEY_AGE == 2
IDLE_TIMEOUT == 1
MAX_ACCESS_COUNT == 1

\* deriveMasterKey: the key of an identity
DeriveMasterKey(address) == 10 + address

\* the master key of a restored session: the one derived for its address
\* when the session was stored
RestoredKey(address) == DeriveMasterKey(address)

\* the limit shouldClearKey reports when it answers true
ClearReason(s, t) ==
  IF t - s.createdAt[1] > MAX_KEY_AGE THEN "age"
  ELSE IF s.lastAccessTime = None \/ t - s.lastAccessTime[1] > IDLE_TIMEOUT
  THEN "inactivity"
  ELSE "excessive access"

ShouldClearKeyNoIdle(s, t) ==
  IF s.masterKey = None \/ s.createdAt = None THEN FALSE
  ELSE \/ t - s.createdAt[1] > MAX_KEY_AGE
       \/ s.accessCount > MAX_ACCESS_COUNT

ShouldClearKey(s, t) ==
  IF s.masterKey = None \/ s.createdAt = None THEN FALSE
  ELSE \/ t - s.createdAt[1] > MAX_KEY_AGE
       \/ (IF s.lastAccessTime = None THEN TRUE
           ELSE t - s.lastAccessTime[1] > IDLE_TIMEOUT)
       \/ s.accessCount > MAX_ACCESS_COUNT

\* secureClearKey: fill(0), drop the key, cancel the clearance timer
SecureClearKey(s) == [s EXCEPT !.masterKey = None, !.clearanceTimer = FALSE]

ClearCacheState(s) ==
  [SecureClearKey(s) EXCEPT !.isLoading = FALSE, !.promise = None,
                            !.lastAddress = None, !.createdAt = None,
                            !.accessCount = 0, !.lastAccessTime = None]

\* recordAccess: the new state, and whether a clear is scheduled for the next tick
RecordAccess(s, t) ==
  LET s1 == [s EXCEPT !.accessCount = @ + 1, !.lastAccessTime = Some(t)]
  IN [state |-> s1, clearNext |-> ShouldClearKey(s1, t)]

\* a deriveMasterKey call in flight, and one that has settled
PendingDeriv(address) == [address |-> address, state |-> "pending", cancelled |-> FALSE]
SettledDeriv == [address |-> 0, state |-> "settled", cancelled |-> FALSE]

\* history: the cache is cleared while derivations are in flight
CancelPending(ds) ==
  [d \in DOMAIN ds |-> IF ds[d].state = "pending"
                       THEN [ds[d] EXCEPT !.cancelled = TRUE] ELSE ds[d]]

Pending(d) == d \in DOMAIN derivs /\ derivs[d].state = "pending"

Schedule(clearNext) ==
  /\ clearNext => deferred < MaxDeferred
  /\ deferred' = IF clearNext THEN deferred + 1 ELSE deferred

Returned(from, address, key, callers) ==
  [from |-> from, address |-> address, key |-> key, callers |-> callers]

\* getMasterKey up to the point where it returns the key or a promise
GetMasterKey(c, address) ==
  /\ waiting[c] = 0
  /\ LET expired == ShouldClearKey(mk, now)
         s0 == IF expired THEN ClearCacheState(mk) ELSE mk
         ds0 == IF expired THEN CancelPending(derivs) ELSE derivs
         ko0 == IF expired THEN "none" ELSE keyOrigin
     IN IF s0.masterKey # None /\ s0.lastAddress = Some(address)
        THEN LET r == RecordAccess(s0, now)
             IN /\ mk' = r.state
                /\ Schedule(r.clearNext)
                /\ ret' = Returned("cache", address, s0.masterKey[1], {c})
                /\ derivs' = ds0
                /\ keyOrigin' = ko0
                /\ UNCHANGED waiting
        ELSE IF s0.isLoading /\ s0.lastAddress = Some(address) /\ s0.promise # None
        THEN /\ mk' = s0
             /\ waiting' = [waiting EXCEPT ![c] = s0.promise[1]]
             /\ ret' = IF expired THEN Returned(ClearReason(mk, now), address, 0, {}) ELSE NoRet
             /\ derivs' = ds0
             /\ keyOrigin' = ko0
             /\ UNCHANGED deferred
        ELSE LET changed == s0.lastAddress # Some(address)
                 s1 == IF changed THEN ClearCacheState(s0) ELSE s0
                 ds1 == IF changed THEN CancelPending(ds0) ELSE ds0
                 d == Len(derivs) + 1
             IN /\ Len(derivs) < MaxDerivs
                /\ mk' = [s1 EXCEPT !.isLoading = TRUE, !.lastAddress = Some(address),
                                    !.promise = Some(d)]
                /\ derivs' = Append(ds1, PendingDeriv(address))
                /\ waiting' = [waiting EXCEPT ![c] = d]
                /\ ret' = IF expired THEN Returned(ClearReason(mk, now), address, 0, {}) ELSE NoRet
                /\ keyOrigin' = IF changed THEN "none" ELSE ko0
                /\ UNCHANGED deferred
  /\ UNCHANGED <<keyFor, unzeroed>>

Waiters(d) == {c \in Callers : waiting[c] = d}

\* the then-handler of getMasterKey: deriveMasterKey fulfilled
DeriveResolve(d) ==
  /\ Pending(d)
  /\ LET key == DeriveMasterKey(derivs[d].address)
         s1 == [mk EXCEPT !.masterKey = Some(key), !.isLoading = FALSE,
                          !.createdAt = Some(now), !.accessCount = 0,
                          !.lastAccessTime = Some(now), !.clearanceTimer = TRUE]
         r == RecordAccess(s1, now)
     IN /\ mk' = r.state
        /\ Schedule(r.clearNext)
        /\ derivs' = [derivs EXCEPT ![d] = SettledDeriv]
        /\ waiting' = [c \in Callers |-> IF waiting[c] = d THEN 0 ELSE waiting[c]]
        /\ ret' = Returned("promise", derivs[d].address, key, Waiters(d))
        /\ keyFor' = [keyFor EXCEPT ![derivs[d].address] = @ \cup {key}]
        /\ keyOrigin' = IF derivs[d].cancelled THEN "cancelled" ELSE "derived"
        /\ unzeroed' = (unzeroed \/ mk.masterKey # None)

\* the catch-handler of getMasterKey: deriveMasterKey rejected
DeriveReject(d) ==
  /\ Pending(d)
  /\ mk' = [mk EXCEPT !.isLoading = FALSE, !.promise = None]
  /\ derivs' = [derivs EXCEPT ![d] = SettledDeriv]
  /\ waiting' = [c \in Callers |-> IF waiting[c] = d THEN 0 ELSE waiting[c]]
  /\ ret' = Returned("error", derivs[d].address, 0, Waiters(d))
  /\ UNCHANGED <<keyFor, keyOrigin, deferred, unzeroed>>

\* clearCache, as called by logout, forceSecureClearance and destroy
ClearCache ==
  /\ mk' = ClearCacheState(mk)
  /\ derivs' = CancelPending(derivs)
  /\ keyOrigin' = "none"
  /\ ret' = NoRet
  /\ UNCHANGED <<waiting, keyFor, deferred, unzeroed>>

GetCachedMasterKey(c) ==
  /\ waiting[c] = 0
  /\ IF ShouldClearKey(mk, now)
     THEN /\ mk' = ClearCacheState(mk)
          /\ derivs' = CancelPending(derivs)
          /\ keyOrigin' = "none"
          /\ ret' = Returned(ClearReason(mk, now), 0, 0, {c})
          /\ UNCHANGED deferred
     ELSE IF mk.masterKey # None
     THEN LET r == RecordAccess(mk, now)
          IN /\ mk' = r.state
             /\ Schedule(r.clearNext)
             /\ ret' = Returned("peek", 0, mk.masterKey[1], {c})
             /\ UNCHANGED <<derivs, keyOrigin>>
     ELSE /\ ret' = Returned("peek", 0, 0, {c})
          /\ UNCHANGED <<mk, derivs, keyOrigin, deferred>>
  /\ UNCHANGED <<waiting, keyFor, unzeroed>>

SetMasterKey(address, masterKey) ==
  /\ mk' = [SecureClearKey(mk) EXCEPT !.masterKey = Some(masterKey),
                                      !.lastAddress = Some(address),
                                      !.createdAt = Some(now), !.accessCount = 0,
                                      !.lastAccessTime = Some(now),
                                      !.clearanceTimer = TRUE]
  /\ keyFor' = [keyFor EXCEPT ![address] = @ \cup {masterKey}]
  /\ keyOrigin' = "restored"
  /\ ret' = NoRet
  /\ UNCHANGED <<derivs, waiting, deferred, unzeroed>>

ClearanceTimerOneShot ==
  /\ mk.clearanceTimer
  /\ IF ShouldClearKey(mk, now)
     THEN /\ mk' = ClearCacheState(mk)
          /\ derivs' = CancelPending(derivs)
          /\ keyOrigin' = "none"
     ELSE /\ mk' = [mk EXCEPT !.clearanceTimer = FALSE]
          /\ UNCHANGED <<derivs, keyOrigin>>
  /\ ret' = NoRet
  /\ UNCHANGED <<waiting, keyFor, deferred, unzeroed>>

\* the callback of setupClearanceTimer: clear, or arm the timer again
ClearanceTimerFires ==
  /\ mk.clearanceTimer
  /\ IF ShouldClearKey(mk, now)
     THEN /\ mk' = ClearCacheState(mk)
          /\ derivs' = CancelPending(derivs)
          /\ keyOrigin' = "none"
     ELSE UNCHANGED <<mk, derivs, keyOrigin>>
  /\ ret' = NoRet
  /\ UNCHANGED <<waiting, keyFor, deferred, unzeroed>>

\* the callback recordAccess scheduled with setTimeout(() => clearCache(), 0)
DeferredClear ==
  /\ deferred > 0
  /\ deferred' = deferred - 1
  /\ mk' = ClearCacheState(mk)
  /\ derivs' = CancelPending(derivs)
  /\ keyOrigin' = "none"
  /\ ret' = NoRet
  /\ UNCHANGED <<waiting, keyFor, unzeroed>>

Tick ==
  /\ now < MaxNow
  /\ now' = now + 1

\* the cached key is older than MAX_KEY_AGE or idle for more than IDLE_TIMEOUT
Stale ==
  /\ mk.masterKey # None
  /\ mk.createdAt # None
  /\ \/ now - mk.createdAt[1] > MAX_KEY_AGE
     \/ mk.lastAccessTime = None
     \/ now - mk.lastAccessTime[1] > IDLE_TIMEOUT

\* the clock as the clearance timer sees it: the check period, a quarter of
\* the shorter limit, is shorter than one clock tick, so an armed timer runs
\* its callback before the next tick
TimedTick ==
  /\ ~(mk.clearanceTimer /\ Stale)
  /\ Tick

KeyRest == <<vaultVars, queueVars, env, cacheVars, utilVars, appVars>>

InitKey ==
  /\ vault = FALSE
  /\ ledger = [fp \in Fps |-> None]
  /\ blobs = <<>>
  /\ sv = [p \in Procs |-> IdleSave]
  /\ saved = [fp \in Fps |-> <<>>]
  /\ clean = [fp \in Fps |-> TRUE]
  /\ lastSave = None
  /\ getLog = None
  /\ InitQueueIdle
  /\ env = EnvIdle
  /\ InitKeyIdle
  /\ InitCacheIdle
  /\ InitUtilIdle
  /\ InitAppIdle
  /\ now = 0

KeyOps ==
  \/ \E c \in Callers, a \in Addresses : GetMasterKey(c, a) /\ UNCHANGED <<KeyRest, now>>
  \/ \E d \in 1..MaxDerivs : DeriveResolve(d) /\ UNCHANGED <<KeyRest, now>>
  \/ \E d \in 1..MaxDerivs : DeriveReject(d) /\ UNCHANGED <<KeyRest, now>>
  \/ ClearCache /\ UNCHANGED <<KeyRest, now>>
  \/ \E c \in Callers : GetCachedMasterKey(c) /\ UNCHANGED <<KeyRest, now>>
  \/ \E a \in Addresses : SetMasterKey(a, RestoredKey(a)) /\ UNCHANGED <<KeyRest, now>>
  \/ ClearanceTimerFires /\ UNCHANGED <<KeyRest, now>>
  \/ DeferredClear /\ UNCHANGED <<KeyRest, now>>

NextKey ==
  \/ KeyOps
  \/ Tick /\ ret' = NoRet
          /\ UNCHANGED <<KeyRest, mk, derivs, waiting, keyFor, keyOrigin, deferred, unzeroed>>

SpecKey == InitKey /\ [][NextKey]_vars

\* the manager with its timer on schedule: an armed setTimeout runs its
\* callback when it is due
TimerStep == ClearanceTimerFires /\ UNCHANGED <<KeyRest, now>>

NextKeyTimed ==
  \/ KeyOps
  \/ TimedTick /\ ret' = NoRet
               /\ UNCHANGED <<KeyRest, mk, derivs, waiting, keyFor, keyOrigin, deferred, unzeroed>>

SpecKeyTimed == InitKey /\ [][NextKeyTimed]_vars /\ WF_vars(TimerStep)

\* -------------------------------------------------- master-key manager claims
\* C5: two derivations for one identity are never in flight at the same time
\* (every overlapping getMasterKey call for an identity joins the one
\* derivation that is running for it).
C5_OneDerivationPerIdentity ==
  \A d1, d2 \in DOMAIN derivs :
    (d1 # d2 /\ derivs[d1].state = "pending" /\ derivs[d2].state = "pending")
      => derivs[d1].address # derivs[d2].address

\* C6: the cached key never comes from a derivation that was in flight when
\* the cache was cleared or when another identity took over: the completion
\* of a cancelled or superseded derivation does not populate the cache.
C6_CancelledNotCached ==
  mk.masterKey # None => keyOrigin # "cancelled"

\* C7: a key that getMasterKey(identity) returns from the cache is a key that
\* was derived or restored for that identity.
C7_IdentityBinding ==
  ret.from = "cache" => ret.key \in keyFor[ret.address]

\* C16: when clearCache returns no key is cached, the loading, promise,
\* identity and access metadata are reset, and no timer or deferred callback
\* scheduled before the clear is still pending.
C16_ClearPostcondition ==
  [][ClearCache => (mk' = KeyIdle /\ ~mk'.clearanceTimer /\ deferred' = 0)]_vars

Access ==
  \/ \E c \in Callers, a \in Addresses : GetMasterKey(c, a)
  \/ \E c \in Callers : GetCachedMasterKey(c)

\* C17: getMasterKey and getCachedMasterKey never return a cached key whose
\* age exceeds MAX_KEY_AGE or whose idle time exceeds IDLE_TIMEOUT; such an
\* access clears the key and returns none.
C17_LazyExpiry ==
  [][(Stale /\ Access) => (mk'.masterKey = None /\ ret'.key = 0)]_vars

C17_Witness ==
  /\ ret.from \in {"age", "inactivity"}
  /\ ret.key = 0
  /\ mk.masterKey = None

\* the cached key was over a time limit one clock tick ago already
Overdue ==
  /\ Stale
  /\ \/ (now - 1) - mk.createdAt[1] > MAX_KEY_AGE
     \/ mk.lastAccessTime = None
     \/ (now - 1) - mk.lastAccessTime[1] > IDLE_TIMEOUT

\* C18: a cached key always has its clearance timer armed; a key that is over
\* a time limit and is not accessed is cleared by the timer, before a further
\* check period has passed.
C18_TimerExpiry ==
  /\ [](mk.masterKey # None => mk.clearanceTimer)
  /\ []~Overdue
  /\ (Stale ~> ~Stale)

C18_Witness ==
  /\ Stale
  /\ mk.clearanceTimer
  /\ ret = NoRet

\* C19: a cached key is handed out at most MAX_ACCESS_COUNT times, the
\* hand-out to the deriving caller included (accessCount counts the hand-outs
\* of the key in the cache); the request over the limit does not receive it.
C19_AccessLimit ==
  (ret.from \in {"cache", "peek", "promise"} /\ ret.key # 0 /\ mk.masterKey # None)
    => mk.accessCount <= MAX_ACCESS_COUNT

\* C20: when a derivation has failed its waiting callers have the error, no
\* key is cached, the manager is not loading and holds no promise, so that a
\* later getMasterKey for the identity starts a new derivation.
C20_DerivationFailure ==
  ret.from = "error" =>
    /\ mk.masterKey = None
    /\ ~mk.isLoading
    /\ mk.promise = None

\* C21: after setMasterKey(identity, key), until a limit is hit or the cache
\* is cleared, that key stays the cached one, and getMasterKey(identity)
\* returns it without calling deriveMasterKey.
C21_RestoreWithoutDerivation ==
  [][keyOrigin = "restored" =>
       /\ \/ keyOrigin' \in {"restored", "none"}
          \/ mk'.masterKey = mk.masterKey
       /\ \A c \in Callers :
            (~ShouldClearKey(mk, now) /\ GetMasterKey(c, mk.lastAddress[1]))
              => /\ ret' = Returned("cache", mk.lastAddress[1], mk.masterKey[1], {c})
                 /\ derivs' = derivs]_vars

\* C32: whenever the manager stops referencing a buffer that held a master
\* key (clear, expiry, identity switch, setMasterKey, or a completed
\* derivation that overwrites a cached key), the buffer was zero-filled
\* first: no non-zero key buffer is ever dropped.
C32_ZeroedOnReplace == unzeroed = FALSE

\* ------------------------------------------------------------ Secure Cache
\* SecurePersistenceManager.  Time is counted in clock ticks; the two
\* lifetimes keep the order they have in the program.
SESSION_TTL == 2
CREDENTIALS_TTL == 1
PBKDF2_ITERATIONS == 600000

Salts == {1}                    \* generateSalt()
IVs == {1}                      \* generateIV()
MasterKeys == {11, 12}          \* master keys the dashboard passes
Owner == {1}                    \* the signed-in identity: its address, its token
CredLists == {<<1>>, <<0>>}      \* credential lists; credential 0 fails validation
Fields == {"data", "salt", "iv", "iterations", "timestamp", "expiresAt", "syntax"}

\* SecurityValidator: 0 stands for a value the validator rejects
ValidSuiAddress(address) == address # 0
ValidJWT(token) == token # 0
ValidCredentialData(credential) == credential # 0

\* `${address}:${idToken}`
Combined(address, idToken) == 100 + 10 * address + idToken

\* PBKDF2
DeriveKey(password, salt, iterations) == <<password, salt, iterations>>

GenerateEncryptionKey(address, idToken, salt) ==
  DeriveKey(Combined(address, idToken), salt, PBKDF2_ITERATIONS)

\* SHA-256 over the data followed by the key
CalculateIntegrity(data, key) == <<data, key>>

\* crypto.encrypt / crypto.decrypt on strings: AES-GCM, symbolic
EncryptString(pt, key) == [key |-> key, pt |-> pt, intact |-> TRUE]

DecryptString(ct, key) ==
  IF ct.intact /\ ct.key = key THEN Some(ct.pt) ELSE None

Ttl(kind) == IF kind = "session" THEN SESSION_TTL ELSE CREDENTIALS_TTL

\* the StoredData that storeSession / storeCredentials write; tampered, origin
\* and orig are history
StoredData(kind, address, idToken, payload, key, salt, iv, t) ==
  LET content == [address |-> address, idToken |-> idToken, payload |-> payload,
                  timestamp |-> t, expiresAt |-> t + Ttl(kind)]
      persisted == [content |-> content,
                    integrity |-> CalculateIntegrity(content, key)]
  IN [data |-> EncryptString(persisted, key), salt |-> salt, iv |-> iv,
      iterations |-> PBKDF2_ITERATIONS, timestamp |-> t, expiresAt |-> t + Ttl(kind),
      parses |-> TRUE, tampered |-> {}, origin |-> "stored", orig |-> payload]

SessionStoredData(address, idToken, masterKey, salt, iv, t) ==
  StoredData("session", address, idToken, masterKey,
             GenerateEncryptionKey(address, idToken, salt), salt, iv, t)

CredentialsStoredData(credentials, masterKey, salt, iv, t) ==
  StoredData("credentials", 0, 0, credentials,
             DeriveKey(masterKey, salt, PBKDF2_ITERATIONS), salt, iv, t)

\* clearSession / clearCredentials: overwrite, then removeItem
ClearSlotKept(s, kind) == s

ClearSlot(s, kind) == [s EXCEPT ![kind] = None]

\* storeSession: validation, key derivation, setItem.  The record carries the
\* time at which the call started; the call takes less than a clock tick.
StoreSession(address, idToken, masterKey, salt, iv) ==
  /\ IF ValidSuiAddress(address) /\ ValidJWT(idToken)
     THEN slot' = [slot EXCEPT !["session"] =
                     Some(SessionStoredData(address, idToken, masterKey, salt, iv, now))]
     ELSE UNCHANGED slot
  /\ loadLog' = None

\* storeCredentials: validation of every credential, key derivation, setItem
StoreCredentials(credentials, masterKey, salt, iv) ==
  /\ IF \A i \in 1..Len(credentials) : ValidCredentialData(credentials[i])
     THEN slot' = [slot EXCEPT !["credentials"] =
                     Some(CredentialsStoredData(credentials, masterKey, salt, iv, now))]
     ELSE UNCHANGED slot
  /\ loadLog' = None

\* a call of getSessionIfValid(address, idToken) or getCredentials(masterKey)
LoadCall(kind, address, idToken, masterKey) ==
  [kind |-> kind, address |-> address, idToken |-> idToken, masterKey |-> masterKey]

\* the key the load derives from its arguments and the stored salt
LoadKey(l, rec) ==
  IF l.kind = "session"
  THEN GenerateEncryptionKey(l.address, l.idToken, rec.salt)
  ELSE DeriveKey(l.masterKey, rec.salt, rec.iterations)

VerifiedDigestOverAll(l, rec) ==
  LET key == LoadKey(l, rec)
      dec == DecryptString(rec.data, key)
  IN IF dec = None THEN None
     ELSE IF l.kind = "session" /\ (dec[1].content.address # l.address
                                    \/ dec[1].content.idToken # l.idToken)
     THEN None
     ELSE IF dec[1].integrity # CalculateIntegrity(dec[1], key)
     THEN None
     ELSE Some(dec[1].content.payload)

\* decrypt, identity check and integrity check: the data, or None when the
\* load clears the slot and returns null
Verified(l, rec) ==
  LET key == LoadKey(l, rec)
      dec == DecryptString(rec.data, key)
  IN IF dec = None THEN None
     ELSE IF l.kind = "session" /\ (dec[1].content.address # l.address
                                    \/ dec[1].content.idToken # l.idToken)
     THEN None
     ELSE IF dec[1].integrity # CalculateIntegrity(dec[1].content, key)
     THEN None
     ELSE Some(dec[1].content.payload)

\* what getSessionIfValid / getCredentials return at time t, None for null
LoadResult(l, stored, t) ==
  IF l.kind = "session" /\ ~(ValidSuiAddress(l.address) /\ ValidJWT(l.idToken))
  THEN None
  ELSE IF stored = None THEN None
  ELSE IF ~stored[1].parses \/ t > stored[1].expiresAt THEN None
  ELSE Verified(l, stored[1])

\* getSessionIfValid / getCredentials: every path that returns null with a
\* record in the slot, or throws, clears the slot
Load(kind, address, idToken, masterKey) ==
  LET l == LoadCall(kind, address, idToken, masterKey)
      res == LoadResult(l, slot[kind], now)
  IN /\ slot' = IF res = None THEN ClearSlot(slot, kind) ELSE slot
     /\ loadLog' = Some([call |-> l, at |-> now, before |-> slot[kind], res |-> res])

\* clearSession / clearCredentials called on logout or after a delete
ClearStored(kind) ==
  /\ slot' = ClearSlot(slot, kind)
  /\ loadLog' = None

\* another script of the page changes one byte of the stored record
Tamper(kind, field, delta) ==
  /\ slot[kind] # None
  /\ slot[kind][1].tampered = {}
  /\ slot[kind][1].origin = "stored"
  /\ LET rec == slot[kind][1]
         r1 == CASE field = "data" -> [rec EXCEPT !.data.intact = FALSE]
                 [] field = "salt" -> [rec EXCEPT !.salt = @ + 1]
                 [] field = "iv" -> [rec EXCEPT !.iv = @ + 1]
                 [] field = "iterations" -> [rec EXCEPT !.iterations = @ + 1]
                 [] field = "timestamp" -> [rec EXCEPT !.timestamp = @ + 1]
                 [] field = "expiresAt" -> [rec EXCEPT !.expiresAt = @ + delta]
                 [] field = "syntax" -> [rec EXCEPT !.parses = FALSE]
     IN slot' = [slot EXCEPT ![kind] = Some([r1 EXCEPT !.tampered = {field}])]
  /\ loadLog' = None

\* a record that was not written by this manager although it decrypts under
\* the identity's key: its digest is wrong, or it names another address
Forge(kind, address, idToken, masterKey, flaw) ==
  /\ slot[kind] = None
  /\ LET good == IF kind = "session"
                 THEN SessionStoredData(address, idToken, RestoredKey(address), 1, 1, now)
                 ELSE CredentialsStoredData(<<1>>, masterKey, 1, 1, now)
         p == good.data.pt
         bad == IF flaw = "integrity"
                THEN [p EXCEPT !.integrity = CalculateIntegrity(p.content, DeriveKey(0, 0, 0))]
                ELSE [p EXCEPT !.content.address = @ + 1]
     IN slot' = [slot EXCEPT ![kind] =
                   Some([good EXCEPT !.data.pt = bad, !.origin = "forged"])]
  /\ loadLog' = None

CacheRest == <<vaultVars, queueVars, env, keyVars, utilVars, appVars>>

NextCache ==
  \/ \E a \in Owner \cup {0}, tok \in Owner, s \in Salts, iv \in IVs :
       StoreSession(a, tok, RestoredKey(a), s, iv) /\ UNCHANGED <<CacheRest, now>>
  \/ \E cs \in CredLists, a \in Owner, s \in Salts, iv \in IVs :
       StoreCredentials(cs, RestoredKey(a), s, iv) /\ UNCHANGED <<CacheRest, now>>
  \/ \E a \in Addresses \cup {0}, tok \in Tokens :
       Load("session", a, tok, 0) /\ UNCHANGED <<CacheRest, now>>
  \/ \E k \in MasterKeys :
       Load("credentials", 0, 0, k) /\ UNCHANGED <<CacheRest, now>>
  \/ \E kind \in Kinds : ClearStored(kind) /\ UNCHANGED <<CacheRest, now>>
  \/ \E kind \in Kinds, f \in Fields, delta \in {-1, 1} :
       Tamper(kind, f, delta) /\ UNCHANGED <<CacheRest, now>>
  \/ \E kind \in Kinds, a \in Owner, flaw \in {"integrity", "address"} :
       Forge(kind, a, a, RestoredKey(a), flaw) /\ UNCHANGED <<CacheRest, now>>
  \/ Tick /\ loadLog' = None /\ UNCHANGED <<CacheRest, slot>>

SpecCache == InitKey /\ [][NextCache]_vars

\* ------------------------------------------------------ Secure Cache claims
\* the password the key of a call is derived from
CallPassword(l) ==
  IF l.kind = "session" THEN Combined(l.address, l.idToken) ELSE l.masterKey

\* C8: after one byte of a stored record was changed, the next load returns
\* null and removes the record; and a load never returns data other than the
\* data that was stored.
C8_TamperDetected ==
  (loadLog # None /\ loadLog[1].before # None) =>
    LET l == loadLog[1]
        rec == l.before[1]
    IN /\ rec.tampered # {} => (l.res = None /\ slot[l.call.kind] = None)
       /\ (rec.origin = "stored" /\ l.res # None) => l.res[1] = rec.orig

C33_CacheRoundTrip ==
  (loadLog # None /\ loadLog[1].before # None) =>
    LET l == loadLog[1]
        rec == l.before[1]
        content == rec.data.pt.content
        sameIdentity ==
          IF l.call.kind = "session"
          THEN /\ l.call.address = content.address
               /\ l.call.idToken = content.idToken
          ELSE rec.data.key = DeriveKey(l.call.masterKey, rec.salt, PBKDF2_ITERATIONS)
    IN (/\ rec.origin = "stored"
        /\ rec.tampered = {}
        /\ l.at - rec.timestamp < Ttl(l.call.kind)
        /\ sameIdentity)
         => /\ l.res = Some(rec.orig)
            /\ l.call.kind = "session" =>
                  /\ content.address = l.call.address
                  /\ content.idToken = l.call.idToken
            /\ slot[l.call.kind] = l.before

\* a session is loaded one tick after it was stored, with its own identity
C33_Witness ==
  /\ loadLog # None
  /\ loadLog[1].before # None
  /\ loadLog[1].call.kind = "session"
  /\ loadLog[1].before[1].origin = "stored"
  /\ loadLog[1].before[1].tampered = {}
  /\ loadLog[1].at = loadLog[1].before[1].timestamp + 1
  /\ loadLog[1].res = Some(loadLog[1].before[1].orig)

\* -------------------------------------------------------------- RateLimiter
\* security-utils.ts.  One limiter; time in clock ticks, Date.now() > 0.
maxAttempts == 2
windowMs == 2

CheckLimitBranchOffByOne(rec, t) ==
  IF rec = None \/ t > rec[1].resetTime THEN "new"
  ELSE IF rec[1].count > maxAttempts THEN "throw"
  ELSE "count"

\* the branch checkLimit takes for the record of the key at time t
CheckLimitBranch(rec, t) ==
  IF rec = None \/ t > rec[1].resetTime THEN "new"
  ELSE IF rec[1].count >= maxAttempts THEN "throw"
  ELSE "count"

CheckLimit(key) ==
  LET rec == attempts[key]
      branch == CheckLimitBranch(rec, now)
  IN /\ attempts' =
          IF branch = "new"
          THEN [attempts EXCEPT ![key] = Some([count |-> 1, resetTime |-> now + windowMs])]
          ELSE IF branch = "throw" THEN attempts
          ELSE [attempts EXCEPT ![key] = Some([rec[1] EXCEPT !.count = @ + 1])]
     /\ limLog' = Some([key |-> key, at |-> now, before |-> rec,
                        res |-> IF branch = "throw" THEN "RATE_LIMIT_EXCEEDED" ELSE "true"])
     /\ accepted' = IF branch = "throw" THEN accepted
                    ELSE [accepted EXCEPT ![key] = Append(@, now)]
     /\ UNCHANGED <<extensionHeartbeats, statusLog>>

Reset(key) ==
  /\ attempts' = [attempts EXCEPT ![key] = None]
  /\ accepted' = [accepted EXCEPT ![key] = <<>>]
  /\ limLog' = None
  /\ UNCHANGED <<extensionHeartbeats, statusLog>>

Cleanup ==
  /\ attempts' = [k \in LimiterKeys |->
                    IF attempts[k] # None /\ now > attempts[k][1].resetTime
                    THEN None ELSE attempts[k]]
  /\ limLog' = None
  /\ UNCHANGED <<extensionHeartbeats, statusLog, accepted>>

UtilTick ==
  /\ now < MaxUtilNow
  /\ now' = now + 1

UtilRest == <<vaultVars, queueVars, env, keyVars, cacheVars, appVars>>

InitUtil ==
  /\ vault = FALSE
  /\ ledger = [fp \in Fps |-> None]
  /\ blobs = <<>>
  /\ sv = [p \in Procs |-> IdleSave]
  /\ saved = [fp \in Fps |-> <<>>]
  /\ clean = [fp \in Fps |-> TRUE]
  /\ lastSave = None
  /\ getLog = None
  /\ InitQueueIdle
  /\ env = EnvIdle
  /\ InitKeyIdle
  /\ InitCacheIdle
  /\ InitUtilIdle
  /\ InitAppIdle
  /\ now = 1

NextLimiter ==
  \/ \E key \in LimiterKeys : CheckLimit(key) /\ UNCHANGED <<UtilRest, now>>
  \/ \E key \in LimiterKeys : Reset(key) /\ UNCHANGED <<UtilRest, now>>
  \/ Cleanup /\ UNCHANGED <<UtilRest, now>>
  \/ UtilTick /\ limLog' = None
       /\ UNCHANGED <<UtilRest, attempts, extensionHeartbeats, statusLog, accepted>>

SpecLimiter == InitUtil /\ [][NextLimiter]_vars

\* the accepted calls of one key, cut into windows of windowMs that start at
\* the first accepted call: no window holds more than maxAttempts of them
RECURSIVE FixedWindowOk(_, _, _)
FixedWindowOk(times, start, cnt) ==
  IF times = <<>> THEN TRUE
  ELSE LET t == Head(times) IN
       IF start = None \/ t > start[1] + windowMs
       THEN FixedWindowOk(Tail(times), Some(t), 1)
       ELSE cnt + 1 <= maxAttempts /\ FixedWindowOk(Tail(times), start, cnt + 1)

\* the accepted calls of the key in the window that is open at time t
InOpenWindow(key, t) ==
  IF attempts[key] = None THEN {}
  ELSE {i \in DOMAIN accepted[key] :
          /\ accepted[key][i] >= attempts[key][1].resetTime - windowMs
          /\ accepted[key][i] <= attempts[key][1].resetTime
          /\ t <= attempts[key][1].resetTime}

\* C29: per key the limiter is a fixed window.  At most maxAttempts calls are
\* accepted within one window of windowMs that starts at the first accepted
\* call; a further call in the window is rejected with RATE_LIMIT_EXCEEDED and
\* changes nothing; the first call after the window has ended is accepted
\* and starts a new window with count 1; keys do not affect each other.
C29_FixedWindow ==
  /\ [](\A k \in LimiterKeys : FixedWindowOk(accepted[k], None, 0))
  /\ [][\A k \in LimiterKeys :
          (CheckLimit(k) /\ UNCHANGED <<UtilRest, now>>) =>
            /\ \A j \in LimiterKeys \ {k} :
                  attempts'[j] = attempts[j] /\ accepted'[j] = accepted[j]
            /\ limLog'[1].res = "RATE_LIMIT_EXCEEDED" <=>
                  Cardinality(InOpenWindow(k, now)) >= maxAttempts
            /\ limLog'[1].res = "RATE_LIMIT_EXCEEDED" =>
                  attempts' = attempts /\ accepted' = accepted
            /\ (attempts[k] # None /\ now > attempts[k][1].resetTime) =>
                  /\ limLog'[1].res = "true"
                  /\ attempts'[k] = Some([count |-> 1, resetTime |-> now + windowMs])]_vars

\* a call was rejected inside a full window while the other key was still
\* being accepted, and a window of this key has already ended and restarted
C29_Witness ==
  /\ limLog # None
  /\ limLog[1].res = "RATE_LIMIT_EXCEEDED"
  /\ Len(accepted[limLog[1].key]) > maxAttempts
  /\ \E j \in LimiterKeys \ {limLog[1].key} :
        attempts[j] # None /\ attempts[j][1].count < maxAttempts

\* ------------------------------------------------- extension ping server
\* heartbeat.ts.  Time in clock ticks, Date.now() > 0.
EXTENSION_HEARTBEAT_TIMEOUT == 2

\* the extensionId of a request body: absent, empty or an id
PingBodies == {None, Some("")} \cup {Some(id) : id \in ExtensionIds}

PingId(extensionId) ==
  IF extensionId = None \/ extensionId = Some("") THEN "default" ELSE extensionId[1]

\* the entry is deleted by the cleanup of a ping at time t
Expired(timestamp, t) == t - timestamp > EXTENSION_HEARTBEAT_TIMEOUT * 2

Ping(extensionId) ==
  LET id == PingId(extensionId)
      set == [extensionHeartbeats EXCEPT ![id] = Some(now)]
      removed == {key \in ExtensionIds : set[key] # None /\ Expired(set[key][1], now)}
  IN /\ extensionHeartbeats' = [key \in ExtensionIds |->
                                  IF key \in removed THEN None ELSE set[key]]
     /\ statusLog' = [statusLog EXCEPT
                        !.ping = Some([id |-> id, at |-> now, removed |-> removed])]
     /\ UNCHANGED <<attempts, limLog, accepted>>

StatusLoopFirst(entries, t, installed, lastPing) ==
  LET fresh == {i \in DOMAIN entries : t - entries[i] < EXTENSION_HEARTBEAT_TIMEOUT}
  IN [installed |-> fresh # {},
      lastPing |-> IF fresh = {} THEN None
                   ELSE Some(entries[CHOOSE i \in fresh : \A j \in fresh : i <= j])]

\* the for loop of the status handler over the timestamps of the map
RECURSIVE StatusLoop(_, _, _, _)
StatusLoop(entries, t, installed, lastPing) ==
  IF entries = <<>> THEN [installed |-> installed, lastPing |-> lastPing]
  ELSE LET timestamp == Head(entries)
           age == t - timestamp
       IN IF age < EXTENSION_HEARTBEAT_TIMEOUT
          THEN StatusLoop(Tail(entries), t, TRUE,
                          IF lastPing = None \/ timestamp > lastPing[1]
                          THEN Some(timestamp) ELSE lastPing)
          ELSE StatusLoop(Tail(entries), t, installed, lastPing)

\* the orders in which the map can hold its entries
EntryOrders ==
  LET present == {id \in ExtensionIds : extensionHeartbeats[id] # None}
  IN {o \in [1..Cardinality(present) -> present] :
        \A i, j \in DOMAIN o : i # j => o[i] # o[j]}

Status ==
  /\ \E o \in EntryOrders :
       LET entries == [i \in DOMAIN o |-> extensionHeartbeats[o[i]][1]]
           r == StatusLoop(entries, now, FALSE, None)
       IN statusLog' = [statusLog EXCEPT
                          !.status = Some([installed |-> r.installed,
                                           lastPing |-> r.lastPing, at |-> now])]
  /\ UNCHANGED <<attempts, limLog, extensionHeartbeats, accepted>>

NextHeartbeat ==
  \/ \E extensionId \in PingBodies : Ping(extensionId) /\ UNCHANGED <<UtilRest, now>>
  \/ Status /\ UNCHANGED <<UtilRest, now>>
  \/ UtilTick /\ statusLog' = [ping |-> None, status |-> None]
       /\ UNCHANGED <<UtilRest, attempts, limLog, extensionHeartbeats, accepted>>

SpecHeartbeat == InitUtil /\ [][NextHeartbeat]_vars

\* the last pings that count as installed at time t
Alive(t) ==
  {extensionHeartbeats[id][1] : id \in
     {k \in ExtensionIds : /\ extensionHeartbeats[k] # None
                           /\ t - extensionHeartbeats[k][1] < EXTENSION_HEARTBEAT_TIMEOUT}}

\* C30: the status endpoint reports installed = true exactly when some
\* extension id has a last ping younger than EXTENSION_HEARTBEAT_TIMEOUT, and
\* then lastPing is the most recent such ping (null otherwise); the cleanup of
\* a ping never removes an entry that would still count as installed.
C30_LivenessStatus ==
  /\ [][(Status /\ UNCHANGED <<UtilRest, now>>) =>
          LET r == statusLog'.status[1] IN
          /\ r.installed <=> Alive(now) # {}
          /\ r.installed => /\ r.lastPing # None
                            /\ r.lastPing[1] \in Alive(now)
                            /\ \A ts \in Alive(now) : ts <= r.lastPing[1]
          /\ ~r.installed => r.lastPing = None]_vars
  /\ [][\A extensionId \in PingBodies :
          (Ping(extensionId) /\ UNCHANGED <<UtilRest, now>>) =>
            \A key \in ExtensionIds :
              (/\ extensionHeartbeats[key] # None
               /\ now - extensionHeartbeats[key][1] < EXTENSION_HEARTBEAT_TIMEOUT)
                => extensionHeartbeats'[key] # None]_vars

\* a ping has just removed an old entry, and the status asked at the same
\* time found two ids alive with different last pings and reported the later
C30_Witness ==
  /\ statusLog.ping # None
  /\ statusLog.ping[1].removed # {}
  /\ statusLog.status # None
  /\ statusLog.status[1].installed
  /\ Cardinality(Alive(now)) = 2
  /\ statusLog.status[1].lastPing = Some(now)

\* ----------------------------------------------------- SecureSessionManager
\* credentials.ts.  Session ids and entropy are random values; a session is
\* the data the dashboard passes (address, idToken, provider, createdAt,
\* masterKey).
MAX_SESSION_AGE == 3

SessionDatas == {[who |-> 1, createdAt |-> 1], [who |-> 2, createdAt |-> 1]}
SessionIds == {1, 2}      \* generateSessionId()
Entropies == {1, 2}       \* generateEntropy()

\* shouldRotateSession: forced over MAX_SESSION_AGE, else Math.random() decides
ShouldRotateSession(createdAt, t, random) ==
  t - createdAt > MAX_SESSION_AGE \/ random

\* factors.join(':')
CreateSecureSessionKey(sessionData, sessionId, entropy, t) ==
  <<sessionData.who, sessionData.createdAt, sessionId, entropy, t>>

\* rotateSession
RotateSession(s, sessionId, t) ==
  [s EXCEPT !.sessionId = Some(sessionId), !.createdAt = Some(t), !.lastSyncKey = None]

\* syncSessionToAPI up to its return: the promise handed to the caller
SyncSessionToAPI(sessionData, newId, entropy, random) ==
  LET s1 == IF sync.sessionId = None
               \/ ShouldRotateSession(sessionData.createdAt, now, random)
            THEN [sync EXCEPT !.sessionId = Some(newId), !.createdAt = Some(now),
                              !.rotationInterval = TRUE]
            ELSE sync
      secureSessionKey == CreateSecureSessionKey(sessionData, s1.sessionId[1], entropy, now)
  IN IF s1.isSyncing /\ s1.promise # None /\ s1.lastSyncKey = Some(secureSessionKey)
     THEN sync' = [s1 EXCEPT !.ret = Some([promise |-> s1.promise[1], data |-> sessionData])]
     ELSE /\ sync.issued < MaxSyncs
          /\ sync' = [s1 EXCEPT
                        !.isSyncing = TRUE,
                        !.lastSyncKey = Some(secureSessionKey),
                        !.issued = @ + 1,
                        !.posts = Append(@, [id |-> s1.issued + 1, data |-> sessionData,
                                             sessionId |-> s1.sessionId[1],
                                             entropy |-> entropy]),
                        !.promise = Some(s1.issued + 1),
                        !.ret = Some([promise |-> s1.issued + 1, data |-> sessionData])]

RemovePost(posts, i) == SubSeq(posts, 1, i - 1) \o SubSeq(posts, i + 1, Len(posts))

\* the then-handler: the server answered 200
SyncOk(i) ==
  /\ i \in DOMAIN sync.posts
  /\ sync' = [sync EXCEPT !.isSyncing = FALSE, !.posts = RemovePost(@, i), !.ret = None]

\* the catch-handler: the request failed or the answer was not ok
SyncFailed(i, newId) ==
  /\ i \in DOMAIN sync.posts
  /\ sync' = [RotateSession([sync EXCEPT !.isSyncing = FALSE, !.promise = None], newId, now)
                EXCEPT !.posts = RemovePost(@, i), !.ret = None]

\* the setInterval callback of startRotationTimer
RotationTimerFires(newId, random) ==
  /\ sync.rotationInterval
  /\ sync' = IF sync.createdAt # None
                /\ ShouldRotateSession(sync.createdAt[1], now, random)
             THEN [RotateSession(sync, newId, now) EXCEPT !.ret = None]
             ELSE [sync EXCEPT !.ret = None]

\* clearState; requests in flight are not aborted
ClearState ==
  sync' = [sync EXCEPT !.rotationInterval = FALSE, !.isSyncing = FALSE, !.promise = None,
                       !.lastSyncKey = None, !.sessionId = None, !.createdAt = None,
                       !.ret = None]

SyncRest == <<vaultVars, queueVars, env, keyVars, cacheVars, utilVars, api, page, dash>>

NextSync ==
  \/ \E d \in SessionDatas, id \in SessionIds, e \in Entropies, r \in BOOLEAN :
       SyncSessionToAPI(d, id, e, r) /\ UNCHANGED <<SyncRest, now>>
  \/ \E i \in 1..MaxSyncs : SyncOk(i) /\ UNCHANGED <<SyncRest, now>>
  \/ \E i \in 1..MaxSyncs, id \in SessionIds :
       SyncFailed(i, id) /\ UNCHANGED <<SyncRest, now>>
  \/ \E id \in SessionIds, r \in BOOLEAN :
       RotationTimerFires(id, r) /\ UNCHANGED <<SyncRest, now>>
  \/ ClearState /\ UNCHANGED <<SyncRest, now>>
  \/ UtilTick /\ UNCHANGED <<SyncRest, sync>>

SpecSync == InitUtil /\ [][NextSync]_vars

\* C31: when syncSessionToAPI is called with the session data of a sync that
\* is still in flight, no second POST /sync-session is issued and the caller
\* receives the promise of the sync in flight.
C31_SyncDedup ==
  [][\A d \in SessionDatas, id \in SessionIds, e \in Entropies, r \in BOOLEAN :
       (/\ SyncSessionToAPI(d, id, e, r)
        /\ \E i \in DOMAIN sync.posts : sync.posts[i].data = d)
         => /\ sync'.posts = sync.posts
            /\ \E i \in DOMAIN sync.posts :
                  /\ sync.posts[i].data = d
                  /\ sync'.ret = Some([promise |-> sync.posts[i].id, data |-> d])]_vars

\* ------------------------------------------- API server: pending writes
\* heartbeat.ts (the express routes); session-store and save-queue are the
\* modules the routes call.
Routes == {"save-credential", "update-credential", "pending-saves", "complete"}

Answer(route, status, hadSession, pending) ==
  [route |-> route, status |-> status, hadSession |-> hadSession, pending |-> pending]

\* POST /api/sync-session with a complete body: storeSession
ApiSyncSession ==
  /\ api' = [session |-> TRUE, last |-> None]
  /\ UNCHANGED <<queue, nextId, applied>>

\* POST /api/clear-session, or the stored session expires
ApiClearSession ==
  /\ api' = [session |-> FALSE, last |-> None]
  /\ UNCHANGED <<queue, nextId, applied>>

\* POST /api/save-credential and POST /api/update-credential
ApiQueueCredential(route, cred) ==
  IF cred.domain = 0 \/ cred.username = 0 \/ cred.password = 0
  THEN /\ api' = [api EXCEPT !.last = Some(Answer(route, 400, api.session, <<>>))]
       /\ UNCHANGED <<queue, nextId, applied>>
  ELSE IF ~api.session
  THEN /\ api' = [api EXCEPT !.last = Some(Answer(route, 401, api.session, <<>>))]
       /\ UNCHANGED <<queue, nextId, applied>>
  ELSE /\ nextId <= MaxPending
       /\ queue' = QueueSave(queue, nextId, cred)
       /\ nextId' = nextId + 1
       /\ applied' = Append(applied, {})
       /\ api' = [api EXCEPT !.last = Some(Answer(route, 200, api.session, <<>>))]

\* GET /api/pending-saves
ApiPendingSaves ==
  /\ api' = [api EXCEPT !.last =
               Some(Answer("pending-saves", 200, api.session, GetPendingSaves(queue)))]
  /\ UNCHANGED <<queue, nextId, applied>>

\* POST /api/pending-saves/:id/complete
ApiComplete(id) ==
  /\ queue' = RemoveFromQueue(queue, id)
  /\ api' = [api EXCEPT !.last =
               Some(Answer("complete", IF id \in QueuedIds THEN 200 ELSE 404,
                           api.session, <<>>))]
  /\ UNCHANGED <<nextId, applied>>

ApiRest == <<cyc, acked, failedOnce, polledAcked, pollMissed, vaultVars, env, keyVars,
             cacheVars, utilVars, sync, page, dash, now>>

NextApi ==
  \/ ApiSyncSession /\ UNCHANGED ApiRest
  \/ ApiClearSession /\ UNCHANGED ApiRest
  \/ \E d \in Domains \cup {0}, u \in Names, pw \in Passwords :
       ApiQueueCredential("save-credential", Cred(d, u, pw)) /\ UNCHANGED ApiRest
  \/ \E d \in Domains \cup {0}, u \in Names, pw \in Passwords :
       ApiQueueCredential("update-credential", Cred(d, u, pw)) /\ UNCHANGED ApiRest
  \/ ApiPendingSaves /\ UNCHANGED ApiRest
  \/ \E id \in 1..(MaxPending + 1) : ApiComplete(id) /\ UNCHANGED ApiRest

SpecApi == InitUtil /\ [][NextApi]_vars

\* C36: a request to an endpoint that enqueues, lists or completes pending
\* writes, made while the server has no valid session, is refused, returns
\* no pending entry and leaves the queue as it was.
C36_PendingNeedsSession ==
  /\ []((/\ api.last # None
          /\ ~api.last[1].hadSession
          /\ api.last[1].route \in Routes)
            => /\ api.last[1].status \in {400, 401}
               /\ api.last[1].pending = <<>>)
  /\ [][(~api.session /\ api'.last # None /\ api'.last # api.last)
          => queue' = queue]_vars

\* -------------------------------------------------- Dashboard.loadCredentials
\* part_003.  The answers of GET /all-credentials: a credential list, a 401
\* whose retry brings a list or fails, another HTTP or network error, a body
\* without a list.
Responses ==
  {[kind |-> k, list |-> l] : k \in {"ok", "retried"}, l \in CredLists}
  \cup {[kind |-> k, list |-> <<>>] : k \in {"unauthorized", "error", "invalid"}}

\* persistenceManager.storeCredentials inside loadCredentials: the slot after
\* it, or "throws" when a credential fails validation
CacheFetched(list, masterKey, salt, iv, s) ==
  IF masterKey = None THEN [slot |-> s, throws |-> FALSE]
  ELSE IF \A i \in 1..Len(list) : ValidCredentialData(list[i])
  THEN [slot |-> [s EXCEPT !["credentials"] =
                    Some(CredentialsStoredData(list, masterKey[1], salt, iv, now))],
        throws |-> FALSE]
  ELSE [slot |-> s, throws |-> TRUE]

\* loadCredentials(forceRefresh) for a signed-in user; masterKey is what
\* getCachedMasterKey returns
LoadCredentials(forceRefresh, masterKey, response, salt, iv) ==
  LET cached == IF forceRefresh \/ masterKey = None THEN None
                ELSE LoadResult(LoadCall("credentials", 0, 0, masterKey[1]),
                                slot["credentials"], now)
      s1 == IF ~forceRefresh /\ masterKey # None /\ cached = None
            THEN ClearSlot(slot, "credentials") ELSE slot
      stored == CacheFetched(response.list, masterKey, salt, iv, s1)
      fetchedOk == response.kind \in {"ok", "retried"}
  IN /\ IF cached # None
        THEN /\ dash' = [credentials |-> cached[1],
                         last |-> Some([force |-> forceRefresh, key |-> masterKey,
                                        response |-> response, fromCache |-> TRUE])]
             /\ slot' = slot
        ELSE /\ dash' = [credentials |-> IF fetchedOk /\ ~stored.throws
                                         THEN response.list ELSE <<>>,
                         last |-> Some([force |-> forceRefresh, key |-> masterKey,
                                        response |-> response, fromCache |-> FALSE])]
             /\ slot' = IF fetchedOk THEN stored.slot ELSE s1
     /\ loadLog' = None

DashRest == <<vaultVars, queueVars, env, keyVars, utilVars, sync, api, page>>

NextDash ==
  \/ \E f \in BOOLEAN, k \in {None} \cup {Some(x) : x \in MasterKeys},
        r \in Responses, s \in Salts, iv \in IVs :
       LoadCredentials(f, k, r, s, iv) /\ UNCHANGED <<DashRest, now>>
  \/ ClearStored("credentials") /\ UNCHANGED <<DashRest, dash, now>>
  \/ UtilTick /\ UNCHANGED <<DashRest, dash, slot, loadLog>>

SpecDash == InitUtil /\ [][NextDash]_vars

\* C39: when loadCredentials fetched a credential list from the API, the
\* list shown is that list, also when storing it in the Secure Cache failed.
C39_FetchedListShown ==
  (/\ dash.last # None
   /\ ~dash.last[1].fromCache
   /\ dash.last[1].response.kind \in {"ok", "retried"})
    => dash.credentials = dash.last[1].response.list

\* ------------------------------------------------ content script: one page
\* heartbeat.ts (form detector).  The page has one login form or none and
\* makes no DOM change of its own; "mutation" says that the MutationObserver
\* has records to deliver.  A check of the domain ends with one of:
CheckResults == {"exists", "absent", "failed", "failedSilent"}

\* showNotification: the old element is removed, a new one is appended to body
ShowNotification(p) == [p EXCEPT !.notification = TRUE, !.mutation = TRUE]

\* showSavePrompt with both fields filled: the prompt and its 30 s timer
ShowSavePrompt(p) ==
  [p EXCEPT !.prompt = "shown", !.promptAttached = TRUE, !.promptTimer = TRUE,
            !.mutation = TRUE, !.submit = "held"]

\* form.submit(): the page is left
FormSubmit(p) == [p EXCEPT !.submit = "forwarded", !.unloaded = TRUE]

\* initFormDetection after checkResult is known, to the end of the function
RunBody(p, checkResult) ==
  LET p1 == IF checkResult = "failed" THEN ShowNotification(p) ELSE p
      p2 == IF p1.processed THEN p1
            ELSE [p1 EXCEPT !.processed = TRUE, !.fetching = (checkResult = "exists")]
  IN [p2 EXCEPT !.isInitializing = FALSE, !.checking = FALSE]

\* a call of initFormDetection up to its first await, or to its end
InitFormDetection(p) ==
  IF p.isInitializing \/ ~p.forms THEN p
  ELSE IF p.cache # None /\ p.cache[1].fresh THEN RunBody(p, p.cache[1].result)
  ELSE [p EXCEPT !.isInitializing = TRUE, !.checking = TRUE]

\* the call made when the script is loaded
Boot ==
  /\ page.boot /\ ~page.unloaded
  /\ page' = [InitFormDetection(page) EXCEPT !.boot = FALSE]

\* checkCredentialExists answers inside initFormDetection
CheckReturns(result) ==
  /\ page.checking /\ ~page.unloaded
  /\ page' = RunBody([page EXCEPT !.cache = Some([result |-> result, fresh |-> TRUE])],
                     result)

\* CACHE_TTL passes
CacheAges ==
  /\ page.cache # None /\ page.cache[1].fresh /\ ~page.unloaded
  /\ page' = [page EXCEPT !.cache = Some([@[1] EXCEPT !.fresh = FALSE])]

\* the MutationObserver callback: debouncedInitFormDetection
ObserverCallback ==
  /\ page.mutation /\ ~page.unloaded
  /\ page' = [page EXCEPT !.mutation = FALSE, !.debounceTimer = TRUE]

\* the debounce timer fires
DebounceFires ==
  /\ page.debounceTimer /\ ~page.unloaded
  /\ page' = [InitFormDetection(page) EXCEPT !.debounceTimer = FALSE]

\* the auto-remove timers of the notification that is shown
NotificationExpires ==
  /\ page.notification /\ ~page.unloaded
  /\ page' = [page EXCEPT !.notification = FALSE, !.mutation = TRUE]

\* getCredentials(domain) settles: one credential, several, none, an error
\* with a message, or a rejection
GetCredentialsReturns(result) ==
  /\ page.fetching /\ ~page.unloaded
  /\ LET p == [page EXCEPT !.fetching = FALSE] IN
     page' = CASE result = "one" -> ShowNotification([p EXCEPT !.widget = "button"])
               [] result = "many" -> ShowNotification([p EXCEPT !.widget = "selector"])
               [] result = "error" -> ShowNotification(p)
               [] OTHER -> p

\* the user submits the form; the listener intercepts it when both fields are filled
UserSubmits(filled) ==
  /\ page.processed /\ ~page.unloaded
  /\ page.submit = "none"
  /\ page.submits < MaxSubmits
  /\ page' = IF filled THEN [page EXCEPT !.submit = "checking", !.submits = @ + 1]
             ELSE [page EXCEPT !.submit = "native", !.submits = @ + 1, !.unloaded = TRUE]

\* checkCredentialExists answers inside the submit listener
SubmitCheckReturns(result) ==
  /\ page.submit = "checking" /\ ~page.unloaded
  /\ page' = CASE result = "failed" -> FormSubmit(ShowNotification(page))
               [] result = "failedSilent" -> FormSubmit(page)
               [] result = "exists" -> [page EXCEPT !.submit = "getting"]
               [] OTHER -> ShowSavePrompt(page)

\* getCredential answers inside the submit listener
SubmitGetReturns(result) ==
  /\ page.submit = "getting" /\ ~page.unloaded
  /\ page' = CASE result = "same" -> FormSubmit(page)
               [] result = "changed" -> ShowSavePrompt(page)
               [] result = "error" -> FormSubmit(ShowNotification(page))
               [] OTHER -> FormSubmit(page)

\* the user clicks Save
PromptSave ==
  /\ page.prompt = "shown" /\ page.promptAttached /\ ~page.unloaded
  /\ page' = [page EXCEPT !.prompt = "saving", !.mutation = TRUE]

\* saveCredential answers the Save click or the Retry click
SaveReturns(success) ==
  /\ page.prompt \in {"saving", "retrying"} /\ ~page.unloaded
  /\ page' = [page EXCEPT
                !.prompt = IF success THEN "saved"
                           ELSE IF page.prompt = "saving" THEN "error" ELSE "error2",
                !.savedTimer = success,
                !.mutation = @ \/ page.promptAttached]

\* the user clicks Retry
PromptRetry ==
  /\ page.prompt = "error" /\ page.promptAttached /\ ~page.unloaded
  /\ page' = [page EXCEPT !.prompt = "retrying"]

\* the user clicks Submit Anyway
PromptSubmitAnyway ==
  /\ page.prompt \in {"error", "error2"} /\ page.promptAttached /\ ~page.unloaded
  /\ page' = FormSubmit([page EXCEPT !.promptAttached = FALSE])

\* 1.5 s after "Saved successfully": prompt.remove(), form.submit()
SavedTimerFires ==
  /\ page.savedTimer /\ ~page.unloaded
  /\ page' = FormSubmit([page EXCEPT !.savedTimer = FALSE, !.promptAttached = FALSE])

\* the user clicks the No button
PromptCancel ==
  /\ page.prompt = "shown" /\ page.promptAttached /\ ~page.unloaded
  /\ page' = [page EXCEPT !.prompt = "none", !.promptAttached = FALSE, !.mutation = TRUE]

\* 30 s after showSavePrompt: the prompt is removed if it is still in the page
PromptAutoRemove ==
  /\ page.promptTimer /\ ~page.unloaded
  /\ page' = [page EXCEPT !.promptTimer = FALSE, !.promptAttached = FALSE,
                          !.mutation = @ \/ page.promptAttached]

PageRest == <<vaultVars, queueVars, env, keyVars, cacheVars, utilVars, sync, api, dash, now>>

InitPage ==
  /\ vault = FALSE
  /\ ledger = [fp \in Fps |-> None]
  /\ blobs = <<>>
  /\ sv = [p \in Procs |-> IdleSave]
  /\ saved = [fp \in Fps |-> <<>>]
  /\ clean = [fp \in Fps |-> TRUE]
  /\ lastSave = None
  /\ getLog = None
  /\ InitQueueIdle
  /\ env = EnvIdle
  /\ InitKeyIdle
  /\ InitCacheIdle
  /\ InitUtilIdle
  /\ sync = SyncIdle
  /\ api = ApiIdle
  /\ dash = DashIdle
  /\ page \in {[PageIdle EXCEPT !.forms = f] : f \in BOOLEAN}
  /\ now = 1

NextPage ==
  \/ Boot /\ UNCHANGED PageRest
  \/ \E r \in CheckResults : CheckReturns(r) /\ UNCHANGED PageRest
  \/ CacheAges /\ UNCHANGED PageRest
  \/ ObserverCallback /\ UNCHANGED PageRest
  \/ DebounceFires /\ UNCHANGED PageRest
  \/ NotificationExpires /\ UNCHANGED PageRest
  \/ \E r \in {"one", "many", "empty", "error", "rejected"} :
       GetCredentialsReturns(r) /\ UNCHANGED PageRest
  \/ \E filled \in BOOLEAN : UserSubmits(filled) /\ UNCHANGED PageRest
  \/ \E r \in CheckResults : SubmitCheckReturns(r) /\ UNCHANGED PageRest
  \/ \E r \in {"same", "changed", "error", "errorSilent"} :
       SubmitGetReturns(r) /\ UNCHANGED PageRest
  \/ PromptSave /\ UNCHANGED PageRest
  \/ \E ok \in BOOLEAN : SaveReturns(ok) /\ UNCHANGED PageRest
  \/ PromptRetry /\ UNCHANGED PageRest
  \/ PromptSubmitAnyway /\ UNCHANGED PageRest
  \/ SavedTimerFires /\ UNCHANGED PageRest
  \/ PromptCancel /\ UNCHANGED PageRest
  \/ PromptAutoRemove /\ UNCHANGED PageRest

SpecPage == InitPage /\ [][NextPage]_vars

\* every timer fires and every request settles; the user need not act
SpecPageFair ==
  /\ SpecPage
  /\ WF_vars(Boot /\ UNCHANGED PageRest)
  /\ WF_vars((\E r \in CheckResults : CheckReturns(r)) /\ UNCHANGED PageRest)
  /\ WF_vars(ObserverCallback /\ UNCHANGED PageRest)
  /\ WF_vars(DebounceFires /\ UNCHANGED PageRest)
  /\ WF_vars(NotificationExpires /\ UNCHANGED PageRest)
  /\ WF_vars((\E r \in {"one", "many", "empty", "error", "rejected"} :
                GetCredentialsReturns(r)) /\ UNCHANGED PageRest)
  /\ WF_vars((\E r \in CheckResults : SubmitCheckReturns(r)) /\ UNCHANGED PageRest)
  /\ WF_vars((\E r \in {"same", "changed", "error", "errorSilent"} :
                SubmitGetReturns(r)) /\ UNCHANGED PageRest)
  /\ WF_vars((\E ok \in BOOLEAN : SaveReturns(ok)) /\ UNCHANGED PageRest)
  /\ WF_vars(SavedTimerFires /\ UNCHANGED PageRest)
  /\ WF_vars(PromptAutoRemove /\ UNCHANGED PageRest)

\* no run of initFormDetection is going on or scheduled
Quiet ==
  \/ page.unloaded
  \/ (~page.boot /\ ~page.mutation /\ ~page.debounceTimer /\ ~page.isInitializing)

\* C37: form detection quiesces: the cycle MutationObserver -> debounce ->
\* initFormDetection, fed only by the script's own insertions and removals,
\* comes to an end for every outcome of the credential check.
C37_DetectionQuiesces == <>[]Quiet

\* C38: every submission the listener intercepted is eventually forwarded
\* with form.submit(), whatever the check returns and whatever the user
\* does with the save prompt.
C38_SubmitForwarded ==
  (page.submit \in {"checking", "getting", "held"}) ~> (page.submit = "forwarded")

====
